---- MODULE Spec2Model ----
(***************************************************************************)
(* Verification model of the open-deepwiki repository processing pipeline: *)
(* the task/repository rows, the cancel-flag registry, the job queue, the  *)
(* worker's run of process_repository_task and the API handlers that       *)
(* create, cancel and delete work (specification Spec), the same run with  *)
(* enough failures to exhaust the Celery retries (specification SpecRetry), *)
(* the same run with the clone directories, the Chroma collections and the *)
(* orphan cleanup (specification SpecStore), the per-file FileState /      *)
(* vector-store ledger of the parse, embed and wiki stages (specification  *)
(* SpecFS), the wiki rows written by the generation, incremental-update    *)
(* and regeneration paths (specification SpecWiki), the requests sent for  *)
(* the content of one page (specification SpecPage) and the error texts a  *)
(* failed run stores and publishes (specification SpecRedact).             *)
(***************************************************************************)
EXTENDS Integers, Sequences, FiniteSets, TLC

\* ------------------------------------------------------------------ bounds
MaxTasks == 2
MaxRepos == 1
EmbedBatches == 1
\* external failures (Redis, git clone, parser, embedding API, LLM) injected
\* in one behaviour
MaxFaults == 1
\* failures injected in one behaviour of the retry specification: enough for
\* every run of a job to fail
MaxRetryFaults == 3

\* file-state pipeline: paths of the repository, versions of a file's content,
\* chunk ids ever handed out, pipeline runs, upstream pushes, failures
MaxPaths == 2
MaxContent == 2
MaxChunkId == 6
MaxRuns == 3
MaxPushes == 2
MaxFsFaults == 1
\* chunks a parsed file yields, and chunks per embedding batch (batch_size)
ChunksPerFile == 1
BatchSize == 1

\* wiki generator
MaxTechPages == 4     \* technical pages of a wiki outline
MaxSections == 2      \* technical sections of a wiki outline
MaxGenerations == 2   \* wiki stages of a behaviour
MaxPageFailures == 1  \* page generations that raise in one wiki stage
MaxContext == 4       \* length of a page's code context
MaxPageRuns == 3      \* pages of one generate_wiki run
MaxWords == 3         \* pieces of an exception text
MaxLines == 620       \* lines of a chunk's content
MaxWorkers == 2       \* worker processes that take jobs
MaxGenTasks == 3      \* tasks created for the repository
MaxGenPages == 3      \* technical pages one generation works on

TaskIds == 1..MaxTasks
RepoIds == 1..MaxRepos
\* distinct repository URLs a client may submit
Urls == 1..MaxRepos

\* ------------------------------------------------------- program constants
max_retries == 2

PCT_CLONING == 5
PCT_SYNCED == 15
PCT_PARSING == 20
PCT_EMBEDDING == 50
PCT_GENERATING == 75
PCT_COMPLETED == 100

\* pct values generate_wiki hands to its progress callback
WIKI_PCT_OUTLINE == 10
WIKI_PCT_PAGES == 50

TaskStatus ==
    {"pending", "cloning", "parsing", "embedding", "generating",
     "completed", "failed", "cancelled", "interrupted"}

TaskType == {"full_process", "incremental_sync", "wiki_regenerate"}

\* members of the RepoStatus enum
RepoStatus == {"pending", "cloning", "ready", "error", "syncing"}

\* _TERMINAL of the worker-boot hook and _TERMINAL_STATUSES of the system API
TERMINAL == {"completed", "failed", "cancelled", "interrupted"}

\* the statuses the submit / reprocess / sync / regenerate / delete handlers
\* exclude when they look for a task that is still in progress
API_FINISHED == {"completed", "failed", "cancelled"}

NoTask ==
    [repo |-> 0, type |-> "none", status |-> "absent", progress |-> 0,
     failed_at_stage |-> "none", error_msg |-> "none"]

NoRepo == [url |-> 0, status |-> "absent", local_path |-> FALSE]

\* a broker message: the task's arguments, self.request.retries, and the
\* countdown it was published with
NoJob == [task |-> 0, repo |-> 0, retries |-> 0, countdown |-> 0]

Paths == 1..MaxPaths
\* versions of a file's content; 0 stands for "no such file"
Contents == 1..MaxContent

\* hashlib.sha256(source_code).hexdigest(): one digest per content
sha256(c) == <<"sha256", c>>
NoHash == <<"sha256", 0>>

NoFileState == [file_hash |-> NoHash, chunk_ids |-> {}]

\* the keyword fields of the completed event of a pipeline run
NoFsEvent == [status |-> "none", wiki_id |-> 0, wiki_regen_suggestion |-> FALSE]

VARIABLES
    repos,        \* repositories table: RepoIds -> row or NoRepo
    tasks,        \* tasks table (committed): TaskIds -> row or NoTask
    nextRepo,     \* next unused repository id
    nextTask,     \* next unused task id
    flushed,      \* task rows flushed by an API session but not yet committed
    cancelFlag,   \* Redis keys cancel:<task id>
    queue,        \* jobs delivered to the broker and not yet acknowledged
    events,       \* latest event published on task_progress:<task id>
    deleting,     \* repositories whose delete request is in its grace sleep
    faults,       \* external failures injected so far
    budget,       \* external failures the behaviour may inject
    wJob,         \* job the worker is running, or NoJob
    pc,           \* position of the worker in process_repository_task
    wStatus,      \* Task.status as cached in the worker's session
    wType,        \* Task.type as cached in the worker's session
    wStage,       \* the _stage variable of _run_task
    wExc,         \* exception in flight: "none", "cancelled" or "error"
    wPathDirty,   \* repo.local_path assigned and flushed, not yet committed
    wRepo,        \* the run holds a Repository object (repo is not None)
    wTotal,       \* embedding batches of the run's chunk list (0: no chunks)
    wBatch        \* embedding batches stored so far in this run

VARIABLES
    clone_dir,    \* repositories with a directory under REPOS_BASE_DIR
    chroma,       \* repositories with a Chroma collection repo_<id>_chunks
    delete_path,  \* repo.local_path as a pending delete request holds it
    cleanup       \* position of a POST /cleanup/execute request

storeVars == <<clone_dir, chroma, delete_path, cleanup>>

VARIABLES
    origin,          \* upstream branch: Paths -> content version (0: no file)
    disk,            \* working copy under local_path, same shape
    cloned,          \* the working copy exists
    fetched,         \* origin/<branch> as of the run's git fetch
    file_state,      \* FileState table (committed): Paths -> row or NoFileState
    sDeleted,        \* session: FileState deletions flushed, not committed
    sWritten,        \* session: FileState rows flushed, not committed
    collection,      \* the repository's Chroma collection: set of chunks
    nextChunk,       \* chunk ids handed out so far, plus one (uuid4)
    embed_committed, \* some run's embedding stage has been committed
    fpc,             \* position of the pipeline run
    fType,           \* Task.type of the run
    changes,         \* entries of the git diff still to be applied
    chunks,          \* the run's chunk list
    file_hashes,     \* the run's file_hashes dict: Paths -> digest or NoHash
    stored,          \* chunks of the list added to the collection so far
    runs,            \* pipeline runs started
    pushes,          \* upstream pushes
    fsFaults,        \* failures injected into pipeline runs
    parsable,        \* paths whose files the parser yields chunks for
    stdout,          \* lines of the run's git diff --name-status
    changed_paths,   \* sync_stats["changed_paths"] of the run
    wiki,            \* the run that wrote the Wiki rows (0: no wiki)
    fsEvent          \* the terminal event of the latest finished run

VARIABLES
    wiki_row,        \* the repository's Wiki row: the run that created it (0: none)
    wiki_pages,      \* technical WikiPage rows: TechPages -> row or NoPage
    quick_start,     \* content of the two quick-start pages (0: no such rows)
    section_title,   \* WikiSection.title: Sections -> the run that wrote it
    generation,      \* wiki stages run so far
    wiki_task,       \* type and changed_paths of the task of the latest stage
    wiki_result,     \* dict returned by the wiki function of the latest stage
    terminal_event,  \* the stage's terminal event on task_progress
    row_pcts,        \* progress_pct values written to the task row by the stage
    event_pcts,      \* progress_pct values published by the stage
    page_failures    \* pages whose generation raised in the latest stage

wikiVars ==
    <<wiki_row, wiki_pages, quick_start, section_title, generation,
      wiki_task, wiki_result, terminal_event, row_pcts, event_pcts, page_failures>>

\* state of the services modelled on their own
VARIABLES
    pages_done,     \* pages whose generation has ended in the run
    skipped_count,  \* generate_wiki's skipped_count
    page_input,     \* what the LLM answers for the latest page
    llm_contexts,   \* code contexts of the page-content requests sent for it
    page_result     \* how _generate_page_content ended for it

pageVars == <<pages_done, skipped_count, page_input, llm_contexts, page_result>>

VARIABLES
    exc_text,      \* str(e) of the exception the run ended with
    error_text,    \* Task.error_msg as _fail_task stored it
    event_text     \* the stage text of the failed event published

redactVars == <<exc_text, error_text, event_text>>

VARIABLES
    chunk_in,      \* the chunk handed to split_large_chunk
    chunk_out      \* the list it returned

chunkVars == <<chunk_in, chunk_out>>

VARIABLES
    wikis,         \* ids of the committed Wiki rows of the repository
    next_wiki,     \* next unused Wiki id (uuid4)
    gen_tasks,     \* tasks of the repository in progress, by id: their type
    next_gen,      \* next unused task id
    gen            \* per worker process: the generate stage it runs

wikiRowVars == <<wikis, next_wiki, gen_tasks, next_gen, gen>>

VARIABLES
    cancel_requested, \* whether Redis holds the cancel flag of the task
    gen_path,      \* which generation the run is in: full, selected pages,
                   \* incremental
    gen_pc,        \* where that generation stands
    results,       \* per page: its sub-task, and what gather holds for it
    write_i,       \* index of the result the serial write loop is at
    page_rows,     \* pages whose content and summary the run has committed
    title_rows     \* sections whose title the run has committed

cancelGenVars ==
    <<cancel_requested, gen_path, gen_pc, results, write_i, page_rows,
      title_rows>>

VARIABLE
    failed_stored  \* ids of the chunks that runs which then failed in their
                   \* embedding stage added to the collection, since the
                   \* last run that completed

\* state of the remaining services
otherVars == <<chunkVars, wikiRowVars, cancelGenVars, failed_stored>>

\* the same without the record of failed embedding stages
servicesOfRun ==
    <<wikiVars, pageVars, redactVars, chunkVars, wikiRowVars, cancelGenVars>>

serviceVars == <<wikiVars, pageVars, redactVars, otherVars>>

fsVars ==
    <<origin, disk, cloned, fetched, file_state, sDeleted, sWritten, collection,
      nextChunk, embed_committed, fpc, fType, changes, chunks, file_hashes,
      stored, runs, pushes, fsFaults, parsable, stdout, changed_paths, wiki,
      fsEvent>>

vars ==
    <<repos, tasks, nextRepo, nextTask, flushed, cancelFlag, queue,
      events, deleting, faults, budget, wJob, pc, wStatus, wType, wStage, wExc,
      wPathDirty, wRepo, wTotal, wBatch, storeVars, fsVars, serviceVars>>

apiVars == <<repos, tasks, nextRepo, nextTask, flushed, cancelFlag, queue,
             deleting>>
workerVars ==
    <<wJob, pc, wStatus, wType, wStage, wExc, wPathDirty, wRepo, wTotal, wBatch>>
lifecycleVars == <<apiVars, events, faults, budget, workerVars, storeVars>>

\* ------------------------------------------------------------------ helpers

\* a task row another session can see
Visible(t) == tasks[t] # NoTask

\* select(Task).where(repo_id == r, ~status.in_(COMPLETED, FAILED, CANCELLED))
ActiveTasks(r) ==
    {t \in TaskIds : Visible(t) /\ tasks[t].repo = r
                     /\ tasks[t].status \notin API_FINISHED}

NoEvent == [status |-> "none", pct |-> 0]

\* _publish: the event goes out on the task's topic
Publish(ev, t, status, pct) ==
    [ev EXCEPT ![t] = [status |-> status, pct |-> pct]]

NewTask(r, type) ==
    [repo |-> r, type |-> type, status |-> "pending", progress |-> 0,
     failed_at_stage |-> "none", error_msg |-> "none"]

\* ------------------------------------------------------- wiki rows, paths

TechPages == 1..MaxTechPages
Sections == 1..MaxSections

\* the outline lists its pages section by section
SectionOf(p) == ((p - 1) % MaxSections) + 1

\* paths are strings over a small alphabet; git reports repository-relative
\* paths, the outline's relevant_files are spelled by the LLM
GitPaths == {<<"a">>, <<"b">>}
RelevantChoices == {{}, {<<"A">>}, {<<"/", "b">>}}

Lower(ch) == IF ch = "A" THEN "a" ELSE IF ch = "B" THEN "b" ELSE ch

RECURSIVE LStrip(_)
LStrip(p) == IF p # <<>> /\ Head(p) = "/" THEN LStrip(Tail(p)) ELSE p

\* _norm: p.replace("\\", "/").lstrip("/").lower()
norm(p) ==
    LET slashed == [i \in 1..Len(p) |-> IF p[i] = "\\" THEN "/" ELSE p[i]]
        stripped == LStrip(slashed)
    IN  [i \in 1..Len(stripped) |-> Lower(stripped[i])]

NoPage == [relevant_files |-> {}, content_md |-> 0, summary |-> 0]

\* a key the dict does not have
NoKey == 0 - 1

NoWikiResult ==
    [status |-> "none", wiki_id |-> 0, updated_pages |-> 0,
     skipped_pages |-> NoKey, dirty |-> 0, total |-> 0,
     suggestion_reason |-> FALSE]

NoTerminalEvent ==
    [status |-> "none", wiki_id |-> 0, wiki_regen_suggestion |-> FALSE,
     skipped_pages |-> 0]

NoWikiTask == [type |-> "none", changed_paths |-> {}]

WikiTask(type, changed) ==
    [type |-> type, changed_paths |-> changed]

\* the task types whose wiki stage calls generate_wiki directly
GeneratingTypes == {"full_process", "incremental_sync", "wiki_regenerate"}

\* no wiki has been generated
StartWiki ==
    /\ wiki_row = 0
    /\ wiki_pages = [p \in TechPages |-> NoPage]
    /\ quick_start = 0
    /\ section_title = [s \in Sections |-> 0]
    /\ generation = 0
    /\ wiki_task = NoWikiTask
    /\ wiki_result = NoWikiResult
    /\ terminal_event = NoTerminalEvent
    /\ row_pcts = {}
    /\ event_pcts = {}
    /\ page_failures = {}

\* a code context of n units, and the file list that stands in for it
Code(n) == [kind |-> "code", len |-> n]
FileList == [kind |-> "files", len |-> 0]

Answers == {"ok", "overflow", "error"}

NoPageInput ==
    [len |-> 0, merged_empty |-> FALSE, single |-> "ok",
     half |-> "ok", quarter |-> "ok", minimal |-> "ok"]

StartPage ==
    /\ pages_done = 0
    /\ skipped_count = 0
    /\ page_input = NoPageInput
    /\ llm_contexts = <<>>
    /\ page_result = "none"

\* a text is a sequence of pieces: plain words, or a credential of one of
\* the formats the scrubbing patterns are written for
StartRedact ==
    /\ exc_text = <<>>
    /\ error_text = <<>>
    /\ event_text = <<>>

\* a chunk: its id, its 1-indexed line span in the file, the lines of the
\* original content it holds (from..to-1, 0-indexed), their width, and for
\* a sub-chunk its part index and the id of the chunk it was cut from
NoChunk ==
    [id |-> 0, start_line |-> 0, end_line |-> 0, from |-> 0, to |-> 0,
     width |-> 0, part |-> 0 - 1, parent_id |-> 0]

StartChunk ==
    /\ chunk_in = NoChunk
    /\ chunk_out = <<>>

Workers == 1..MaxWorkers

\* a worker process that runs no generate stage
NoGen == [task |-> 0, pc |-> "idle", existing_wiki |-> 0, deleted |-> {}, added |-> 0]

StartWikiRows ==
    /\ wikis = {}
    /\ next_wiki = 1
    /\ gen_tasks = <<>>
    /\ next_gen = 1
    /\ gen = [w \in Workers |-> NoGen]

GenPages == 1..MaxGenPages

\* no generation under way, no cancel flag
StartCancelGen ==
    /\ cancel_requested = FALSE
    /\ gen_path = "none"
    /\ gen_pc = "idle"
    /\ results = [p \in GenPages |-> "none"]
    /\ write_i = 0
    /\ page_rows = {}
    /\ title_rows = {}

\* empty database, broker and Redis, an idle worker, no local copy
Start ==
    /\ repos = [r \in RepoIds |-> NoRepo]
    /\ tasks = [t \in TaskIds |-> NoTask]
    /\ nextRepo = 1
    /\ nextTask = 1
    /\ flushed = {}
    /\ cancelFlag = {}
    /\ queue = {}
    /\ events = [t \in TaskIds |-> NoEvent]
    /\ deleting = {}
    /\ faults = 0
    /\ wJob = NoJob
    /\ pc = "idle"
    /\ wStatus = "unloaded"
    /\ wType = "none"
    /\ wStage = "none"
    /\ wExc = "none"
    /\ wPathDirty = FALSE
    /\ wRepo = FALSE
    /\ wTotal = 0
    /\ wBatch = 0
    /\ clone_dir = {}
    /\ chroma = {}
    /\ delete_path = [r \in RepoIds |-> "none"]
    /\ cleanup = "idle"
    /\ origin = [p \in Paths |-> 1]
    /\ disk = [p \in Paths |-> 0]
    /\ cloned = FALSE
    /\ fetched = [p \in Paths |-> 0]
    /\ file_state = [p \in Paths |-> NoFileState]
    /\ sDeleted = {}
    /\ sWritten = [p \in Paths |-> NoFileState]
    /\ collection = {}
    /\ nextChunk = 1
    /\ embed_committed = FALSE
    /\ fpc = "idle"
    /\ fType = "none"
    /\ changes = {}
    /\ chunks = <<>>
    /\ file_hashes = [p \in Paths |-> NoHash]
    /\ stored = 0
    /\ runs = 0
    /\ pushes = 0
    /\ fsFaults = 0
    /\ stdout = {}
    /\ changed_paths = {}
    /\ wiki = 0
    /\ fsEvent = NoFsEvent
    /\ StartWiki
    /\ StartPage
    /\ StartRedact
    /\ StartChunk
    /\ StartWikiRows
    /\ StartCancelGen
    /\ failed_stored = {}

Init == Start /\ budget = MaxFaults /\ parsable = Paths

\* ------------------------------------------------------------ API handlers

\* select(Repository).where(url == u)
ExistingRepo(u) == {r \in RepoIds : repos[r] # NoRepo /\ repos[r].url = u}

\* a check that looks for wiki_regenerate tasks in progress only
SubmitConflictWikiOnly(u) ==
    \E r \in ExistingRepo(u) :
       \E t \in ActiveTasks(r) : tasks[t].type = "wiki_regenerate"

\* POST /api/repositories answers 409 REPO_PROCESSING
SubmitConflict(u) == \E r \in ExistingRepo(u) : ActiveTasks(r) # {}

\* the type of the task POST /api/repositories creates
SubmitTaskType(u) ==
    IF ExistingRepo(u) # {} THEN "incremental_sync" ELSE "full_process"

\* POST /api/repositories: a repository with this URL that has a task in
\* progress is a conflict (409, nothing written); an existing repository
\* gets an incremental_sync task, a new URL a Repository row and a
\* full_process task; the task row is committed and then the job enqueued.
submit_repository(u) ==
    LET existing == ExistingRepo(u)
        r == IF existing # {} THEN CHOOSE x \in existing : TRUE ELSE nextRepo
    IN  /\ ~SubmitConflict(u)
        /\ nextTask <= MaxTasks
        /\ IF existing # {}
              THEN UNCHANGED <<repos, nextRepo>>
              ELSE /\ nextRepo <= MaxRepos
                   /\ repos' = [repos EXCEPT ![nextRepo] =
                          [url |-> u, status |-> "pending", local_path |-> FALSE]]
                   /\ nextRepo' = nextRepo + 1
        /\ tasks' = [tasks EXCEPT ![nextTask] = NewTask(r, SubmitTaskType(u))]
        /\ queue' = queue \cup {[task |-> nextTask, repo |-> r, retries |-> 0,
                            countdown |-> 0]}
        /\ nextTask' = nextTask + 1
        /\ UNCHANGED <<flushed, cancelFlag, events, deleting>>
        /\ UNCHANGED workerVars
        /\ UNCHANGED <<faults, budget, fsVars, serviceVars, storeVars>>

\* POST /api/repositories/{id}/reprocess answers 409 REPO_PROCESSING
ReprocessConflict(r) == ActiveTasks(r) # {}

\* POST /api/repositories/{id}/reprocess: full_process on an existing
\* repository, which is put in status cloning.
reprocess_repository(r) ==
    /\ repos[r] # NoRepo
    /\ ~ReprocessConflict(r)
    /\ nextTask <= MaxTasks
    /\ tasks' = [tasks EXCEPT ![nextTask] = NewTask(r, "full_process")]
    /\ repos' = [repos EXCEPT ![r].status = "cloning"]
    /\ queue' = queue \cup {[task |-> nextTask, repo |-> r, retries |-> 0,
                            countdown |-> 0]}
    /\ nextTask' = nextTask + 1
    /\ UNCHANGED <<nextRepo, flushed, cancelFlag, events, deleting>>
    /\ UNCHANGED workerVars
    /\ UNCHANGED <<faults, budget, fsVars, serviceVars, storeVars>>

\* POST /api/repositories/{id}/sync: incremental_sync on a cloned
\* repository, which is put in status syncing.
sync_repository(r) ==
    /\ repos[r] # NoRepo
    /\ repos[r].local_path
    /\ ActiveTasks(r) = {}
    /\ nextTask <= MaxTasks
    /\ tasks' = [tasks EXCEPT ![nextTask] = NewTask(r, "incremental_sync")]
    /\ repos' = [repos EXCEPT ![r].status = "syncing"]
    /\ queue' = queue \cup {[task |-> nextTask, repo |-> r, retries |-> 0,
                            countdown |-> 0]}
    /\ nextTask' = nextTask + 1
    /\ UNCHANGED <<nextRepo, flushed, cancelFlag, events, deleting>>
    /\ UNCHANGED workerVars
    /\ UNCHANGED <<faults, budget, fsVars, serviceVars, storeVars>>

\* select(Task).where(repo_id == r, type == WIKI_REGENERATE,
\*                    ~status.in_(COMPLETED, FAILED, CANCELLED))
ActiveWikiTasks(r) ==
    {t \in ActiveTasks(r) : tasks[t].type = "wiki_regenerate"}

\* POST /api/wiki/{id}/regenerate, up to the enqueue: the task row is only
\* flushed when the job is handed to the broker.
regenerate_wiki(r) ==
    /\ repos[r] # NoRepo
    /\ ActiveWikiTasks(r) = {}
    /\ nextTask <= MaxTasks
    /\ flushed' = flushed \cup {[task |-> nextTask, repo |-> r]}
    /\ queue' = queue \cup {[task |-> nextTask, repo |-> r, retries |-> 0,
                            countdown |-> 0]}
    /\ nextTask' = nextTask + 1
    /\ UNCHANGED <<repos, tasks, nextRepo, cancelFlag, events, deleting>>
    /\ UNCHANGED workerVars
    /\ UNCHANGED <<faults, budget, fsVars, serviceVars, storeVars>>

\* POST /api/wiki/{id}/regenerate, the commit that follows the enqueue.
regenerate_wiki_commit(f) ==
    /\ f \in flushed
    /\ flushed' = flushed \ {f}
    /\ tasks' = IF repos[f.repo] # NoRepo
                   THEN [tasks EXCEPT ![f.task] = NewTask(f.repo, "wiki_regenerate")]
                   ELSE tasks
    /\ UNCHANGED <<repos, nextRepo, nextTask, cancelFlag, queue,
                   events, deleting>>
    /\ UNCHANGED workerVars
    /\ UNCHANGED <<faults, budget, fsVars, serviceVars, storeVars>>

\* the worker's per-run state once its process is gone or the run is over
WorkerReset ==
    /\ wJob' = NoJob
    /\ pc' = "idle"
    /\ wStatus' = "unloaded"
    /\ wType' = "none"
    /\ wStage' = "none"
    /\ wExc' = "none"
    /\ wPathDirty' = FALSE
    /\ wRepo' = FALSE
    /\ wTotal' = 0
    /\ wBatch' = 0

\* celery_app.control.revoke(ids): a worker that receives a revoked job
\* discards it; the job a worker is running is not affected
Revoke(q, ids) == {j \in q : j.task \notin ids \/ j = wJob}

\* POST /api/system/tasks/{id}/cancel: a terminal task is refused; otherwise
\* the flag is set, the job revoked with terminate=True (best effort: the
\* revoke may be lost, may make the workers discard the queued job, or may
\* kill the run in progress) and the row committed as cancelled.
cancel_task(t, eff) ==
    /\ Visible(t)
    /\ tasks[t].status \notin TERMINAL
    /\ cancelFlag' = cancelFlag \cup {t}
    /\ tasks' = [tasks EXCEPT ![t].status = "cancelled"]
    /\ CASE eff = "lost" ->
              /\ UNCHANGED queue
              /\ UNCHANGED workerVars
         [] eff = "revoke" ->
              /\ wJob.task # t
              /\ queue' = Revoke(queue, {t})
              /\ UNCHANGED workerVars
         [] eff = "kill" ->
              /\ wJob.task = t
              /\ queue' = queue \ {wJob}
              /\ WorkerReset
    /\ UNCHANGED <<repos, nextRepo, nextTask, flushed, events, deleting>>
    /\ UNCHANGED <<faults, budget, fsVars, serviceVars, storeVars>>

\* the cascading part of DELETE /api/repositories/{id}: the Repository row
\* and, by ORM cascade, its Task rows
CascadeDelete(r) ==
    /\ repos' = [repos EXCEPT ![r] = NoRepo]
    /\ tasks' = [t \in TaskIds |->
                    IF tasks[t].repo = r THEN NoTask ELSE tasks[t]]

\* DELETE /api/repositories/{id}, up to the grace sleep: every task found in
\* progress gets its cancel flag, a revoke (terminate=False, best effort)
\* and, when the commit succeeds, status cancelled. With no such task the
\* handler goes straight to the cascading delete.
delete_repository_rows(r, revokeOk, dbOk) ==
    /\ repos[r] # NoRepo
    /\ r \notin deleting
    /\ LET active == ActiveTasks(r)
       IN  IF active = {}
              THEN /\ CascadeDelete(r)
                   /\ UNCHANGED <<cancelFlag, queue, deleting>>
              ELSE /\ cancelFlag' = cancelFlag \cup active
                   /\ queue' = IF revokeOk THEN Revoke(queue, active) ELSE queue
                   /\ tasks' = IF dbOk
                                  THEN [t \in TaskIds |->
                                          IF t \in active
                                             THEN [tasks[t] EXCEPT !.status = "cancelled"]
                                             ELSE tasks[t]]
                                  ELSE tasks
                   /\ deleting' = deleting \cup {r}
                   /\ UNCHANGED repos
    /\ UNCHANGED <<nextRepo, nextTask, flushed, events>>
    /\ UNCHANGED workerVars
    /\ UNCHANGED <<faults, budget, fsVars, serviceVars>>

delete_repository(r, revokeOk, dbOk) ==
    delete_repository_rows(r, revokeOk, dbOk) /\ UNCHANGED storeVars

\* DELETE /api/repositories/{id}, after the grace sleep
delete_repository_cascade_rows(r) ==
    /\ r \in deleting
    /\ deleting' = deleting \ {r}
    /\ CascadeDelete(r)
    /\ UNCHANGED <<nextRepo, nextTask, flushed, cancelFlag, queue, events>>
    /\ UNCHANGED workerVars
    /\ UNCHANGED <<faults, budget, fsVars, serviceVars>>

delete_repository_cascade(r) ==
    delete_repository_cascade_rows(r) /\ UNCHANGED storeVars

\* attribute lookup on an enum class: RepoStatus.<name>
HasMember(enum, name) == name \in enum

\* _mark_interrupted_tasks, the rows it commits: every task outside _TERMINAL
\* becomes interrupted and every repository of such a task that is not ready
\* or error becomes RepoStatus.INTERRUPTED. The lookup of that member raises
\* when the enum has none, and then the session is closed without a commit.
MarkInterrupted ==
    LET nonterm == {t \in TaskIds : Visible(t) /\ tasks[t].status \notin TERMINAL}
        repo_ids == {tasks[t].repo : t \in nonterm}
        moved == {r \in repo_ids : repos[r] # NoRepo
                                   /\ repos[r].status \notin {"ready", "error"}}
    IN  IF nonterm = {} \/ (moved # {} /\ ~HasMember(RepoStatus, "interrupted"))
           THEN UNCHANGED <<tasks, repos>>
           ELSE /\ tasks' = [t \in TaskIds |->
                               IF t \in nonterm
                                  THEN [tasks[t] EXCEPT !.status = "interrupted",
                                                        !.error_msg = "worker_restart"]
                                  ELSE tasks[t]]
                /\ repos' = [r \in RepoIds |->
                               IF r \in moved
                                  THEN [repos[r] EXCEPT !.status = "interrupted"]
                                  ELSE repos[r]]

\* on_worker_ready: a worker process has started. Either the worker that was
\* running a job is the one that restarted (its run is gone; the job was not
\* acknowledged and stays with the broker), or another worker joined.
on_worker_ready(restart) ==
    /\ MarkInterrupted
    /\ IF restart /\ pc # "idle" THEN WorkerReset ELSE UNCHANGED workerVars
    /\ restart => pc # "idle"
    /\ UNCHANGED <<nextRepo, nextTask, flushed, cancelFlag, queue,
                   events, deleting>>
    /\ UNCHANGED <<faults, budget, fsVars, serviceVars, storeVars>>

\* ------------------------------------------------- worker: job runner, stages

\* an external call fails: counted against the fault budget
Inject(failed) ==
    /\ IF failed THEN faults < budget /\ faults' = faults + 1
       ELSE UNCHANGED faults
    /\ UNCHANGED <<budget, fsVars, serviceVars>>

\* the same in a step that leaves directories and collections out
Fault(failed) == Inject(failed) /\ UNCHANGED storeVars

\* the job is acknowledged and the worker is free again
Finish ==
    /\ queue' = queue \ {wJob}
    /\ WorkerReset

\* raise inside the try block of _run_task: control goes to its except clause
Raise(kind) ==
    /\ pc' = "except"
    /\ wExc' = kind

\* what _update_task does in the run's session. The Task object is the one
\* the session loaded first (expire_on_commit=False: db.get answers from the
\* identity map), so the status it tests is the cached one; the commit
\* fails when a row the session updates no longer exists.
UpdateOutcome ==
    IF wStatus \in {"cancelled", "interrupted"} THEN "cancelled"
    ELSE IF (wStatus # "missing" /\ tasks[wJob.task] = NoTask)
            \/ (wPathDirty /\ repos[wJob.repo] = NoRepo) THEN "stale"
    ELSE "ok"

\* the row as the commit of _update_task leaves it: the UPDATE carries the
\* attributes that differ from the session's copy
UpdatedRow(row, status, pct) ==
    [row EXCEPT !.status = IF status = wStatus THEN @ ELSE status,
                !.progress = pct]

\* _update_task(db, task_id, status, pct, label) followed by
\* _publish(task_id, status, pct, label)
update_task(status, pct, nextpc) ==
    LET t == wJob.task
        r == wJob.repo
        out == UpdateOutcome
    IN  CASE out = "cancelled" ->
               /\ Raise("cancelled")
               /\ UNCHANGED <<tasks, repos, events, wStatus, wPathDirty>>
          [] out = "stale" ->
               /\ Raise("error")
               /\ UNCHANGED <<tasks, repos, events, wStatus, wPathDirty>>
          [] out = "ok" ->
               /\ tasks' = IF wStatus = "missing" THEN tasks
                           ELSE [tasks EXCEPT ![t] = UpdatedRow(@, status, pct)]
               /\ repos' = IF wPathDirty
                              THEN [repos EXCEPT ![r].local_path = TRUE]
                              ELSE repos
               /\ wPathDirty' = FALSE
               /\ wStatus' = IF wStatus = "missing" THEN "missing" ELSE status
               /\ events' = Publish(events, t, status, pct)
               /\ pc' = nextpc
               /\ UNCHANGED wExc

\* a _fail_task that records no stage
FailedRowNoStage(row, stage) ==
    [row EXCEPT !.status = "failed", !.error_msg = "error"]

\* the row as _fail_task leaves it
FailedRow(row, stage) ==
    [row EXCEPT !.status = "failed", !.error_msg = "error",
                !.failed_at_stage = stage]

\* _fail_task(db, ...) in the run's session followed by _publish(failed) and
\* return: the clone failed, or a full_process parsed no chunk
fail_task_and_return(stage) ==
    LET t == wJob.task
    IN  IF wStatus # "missing" /\ tasks[t] = NoTask
           THEN /\ Raise("error")
                /\ UNCHANGED <<tasks, events, queue, wJob, wStatus, wType,
                               wStage, wPathDirty, wRepo, wTotal, wBatch>>
           ELSE /\ tasks' = IF wStatus = "missing" THEN tasks
                            ELSE [tasks EXCEPT ![t] = FailedRow(@, stage)]
                /\ events' = Publish(events, t, "failed", 0)
                /\ Finish

\* a pre-flight check that looks for the two rows only
PreflightRowsOnly(j) ==
    \/ ~Visible(j.task)
    \/ repos[j.repo] = NoRepo

\* the pre-flight check of _run_task ends the job: no task row, status
\* interrupted, or no repository row
PreflightRejects(j) ==
    \/ ~Visible(j.task)
    \/ tasks[j.task].status = "interrupted"
    \/ repos[j.repo] = NoRepo

\* the worker takes a job and _run_task starts with its pre-flight check in a session of its own: a missing task
\* row, status interrupted or a missing repository row end the job at once.
Dequeue(j) ==
    /\ pc = "idle"
    /\ j \in queue
    /\ IF PreflightRejects(j)
          THEN /\ queue' = queue \ {j}
               /\ UNCHANGED workerVars
          ELSE /\ wJob' = j
               /\ pc' = "init_redis"
               /\ UNCHANGED <<queue, wStatus, wType, wStage, wExc, wPathDirty,
                              wRepo, wTotal, wBatch>>
    /\ UNCHANGED <<repos, tasks, nextRepo, nextTask, flushed, cancelFlag,
                   events, deleting>>
    /\ UNCHANGED <<faults, budget, fsVars, serviceVars, storeVars>>

\* init_redis(); when it fails the task is marked failed (stage cloning) in a
\* fresh session and the exception leaves _run_task
InitRedis(ok) ==
    /\ pc = "init_redis"
    /\ IF ok
          THEN /\ pc' = "open"
               /\ UNCHANGED <<tasks, wExc>>
          ELSE /\ tasks' = IF Visible(wJob.task)
                              THEN [tasks EXCEPT ![wJob.task] = FailedRow(@, "cloning")]
                              ELSE tasks
               /\ pc' = "retry"
               /\ wExc' = "error"
    /\ UNCHANGED <<repos, nextRepo, nextTask, flushed, cancelFlag, queue,
                   events, deleting, wJob, wStatus, wType, wStage,
                   wPathDirty, wRepo, wTotal, wBatch>>
    /\ Fault(~ok)

\* the run's session loads the Task row (task_record_pre = db.get(Task))
OpenSession ==
    /\ pc = "open"
    /\ wStatus' = IF Visible(wJob.task) THEN tasks[wJob.task].status ELSE "missing"
    /\ wType' = IF Visible(wJob.task) THEN tasks[wJob.task].type ELSE "none"
    /\ wStage' = "cloning"
    /\ pc' = "enter"
    /\ UNCHANGED <<wJob, wExc, wPathDirty, wRepo, wTotal, wBatch>>
    /\ UNCHANGED <<apiVars, events>>
    /\ UNCHANGED <<faults, budget, fsVars, serviceVars, storeVars>>

\* first stage update: generating for wiki_regenerate, cloning otherwise
EnterFirstStage ==
    /\ pc = "enter"
    /\ IF wType = "wiki_regenerate"
          THEN /\ wStage' = "generating"
               /\ update_task("generating", PCT_GENERATING, "wiki_outline")
          ELSE /\ wStage' = "cloning"
               /\ update_task("cloning", PCT_CLONING, "cloning")
    /\ UNCHANGED <<nextRepo, nextTask, flushed, cancelFlag, queue,
                   deleting, wJob, wType, wRepo, wTotal, wBatch>>
    /\ UNCHANGED <<faults, budget, fsVars, serviceVars, storeVars>>

\* full_process: clone_repository returned, its answer read as the pair
\* (success, clone_error) that the caller unpacks. On failure the task is
\* failed with stage cloning and the run returns; on success repo.local_path
\* is assigned and flushed.
CloneDoneRows(ok) ==
    /\ pc = "cloning"
    /\ wType # "incremental_sync"
    /\ IF ok
          THEN /\ wRepo' = (repos[wJob.repo] # NoRepo)
               /\ wPathDirty' = (repos[wJob.repo] # NoRepo)
               /\ pc' = "enter_parsing"
               /\ UNCHANGED <<tasks, events, queue, wJob, wStatus, wType,
                              wStage, wExc, wTotal, wBatch>>
          ELSE fail_task_and_return("cloning")
    /\ UNCHANGED <<repos, nextRepo, nextTask, flushed, cancelFlag,
                   deleting>>
    /\ Inject(~ok)

CloneDone(ok) == CloneDoneRows(ok) /\ UNCHANGED storeVars

\* incremental_sync: apply_incremental_sync returned or raised; an exception
\* is logged and the run continues, a result is published at 15 %
SyncDoneRows(ok) ==
    /\ pc = "cloning"
    /\ wType = "incremental_sync"
    /\ wRepo' = (repos[wJob.repo] # NoRepo)
    /\ events' = IF ok THEN Publish(events, wJob.task, "cloning", PCT_SYNCED)
                 ELSE events
    /\ pc' = "enter_parsing"
    /\ UNCHANGED <<wJob, wStatus, wType, wStage, wExc, wPathDirty, wTotal, wBatch>>
    /\ UNCHANGED apiVars
    /\ UNCHANGED <<faults, budget, fsVars, serviceVars>>

SyncDone(ok) == SyncDoneRows(ok) /\ UNCHANGED storeVars

EnterParsing ==
    /\ pc = "enter_parsing"
    /\ wStage' = "parsing"
    /\ update_task("parsing", PCT_PARSING, "parsing")
    /\ UNCHANGED <<nextRepo, nextTask, flushed, cancelFlag, queue,
                   deleting, wJob, wType, wRepo, wTotal, wBatch>>
    /\ UNCHANGED <<faults, budget, fsVars, serviceVars, storeVars>>

\* parse_repository returned n batches of chunks (0: no chunk) or raised.
\* A full_process without chunks is failed with stage parsing.
ParseDone(n, raised) ==
    /\ pc = "parsing"
    /\ IF raised
          THEN /\ n = 0
               /\ Raise("error")
               /\ UNCHANGED <<tasks, events, queue, wJob, wStatus, wType,
                              wStage, wPathDirty, wRepo, wTotal, wBatch>>
          ELSE IF n = 0 /\ wType = "full_process"
                  THEN fail_task_and_return("parsing")
                  ELSE /\ wTotal' = n
                       /\ wBatch' = 0
                       /\ pc' = "enter_embedding"
                       /\ UNCHANGED <<tasks, events, queue, wJob, wStatus,
                                      wType, wStage, wExc, wPathDirty, wRepo>>
    /\ UNCHANGED <<repos, nextRepo, nextTask, flushed, cancelFlag,
                   deleting>>
    /\ Fault(raised)

EnterEmbedding ==
    /\ pc = "enter_embedding"
    /\ wStage' = "embedding"
    /\ update_task("embedding", PCT_EMBEDDING, "embedding")
    /\ UNCHANGED <<nextRepo, nextTask, flushed, cancelFlag, queue,
                   deleting, wJob, wType, wRepo, wTotal, wBatch>>
    /\ UNCHANGED <<faults, budget, fsVars, serviceVars, storeVars>>

\* pct of _embed_progress after `done` of `total` batches: 50 + pct * 0.2
EmbedPct(done, total) == PCT_EMBEDDING + ((done * 100) \div total) \div 5

\* embed_chunks stored one more batch; _embed_progress publishes
EmbedBatchRows ==
    /\ pc = "embedding"
    /\ wBatch < wTotal
    /\ wBatch' = wBatch + 1
    /\ events' = Publish(events, wJob.task, "embedding",
                         EmbedPct(wBatch + 1, wTotal))
    /\ UNCHANGED <<wJob, pc, wStatus, wType, wStage, wExc, wPathDirty, wRepo, wTotal>>
    /\ UNCHANGED apiVars
    /\ UNCHANGED <<faults, budget, fsVars, serviceVars>>

EmbedBatch == EmbedBatchRows /\ UNCHANGED storeVars

\* the embedding API call of the next batch fails
EmbedRaise ==
    /\ pc = "embedding"
    /\ wBatch < wTotal
    /\ Raise("error")
    /\ UNCHANGED <<wJob, wStatus, wType, wStage, wPathDirty, wRepo, wTotal, wBatch>>
    /\ UNCHANGED <<apiVars, events>>
    /\ Fault(TRUE)

\* embed_chunks is over (or was skipped: no chunks); stage 4 is entered
EnterGeneratingRows ==
    /\ pc = "embedding"
    /\ wBatch = wTotal
    /\ wStage' = "generating"
    /\ update_task("generating", PCT_GENERATING, "wiki_outline")
    /\ UNCHANGED <<nextRepo, nextTask, flushed, cancelFlag, queue,
                   deleting, wJob, wType, wRepo, wTotal, wBatch>>
    /\ UNCHANGED <<faults, budget, fsVars, serviceVars>>

EnterGenerating == EnterGeneratingRows /\ UNCHANGED storeVars

\* actual_pct of _wiki_progress / _wiki_regen_progress: 75 + pct * 0.2
WikiPct(pct) == PCT_GENERATING + pct \div 5

\* _wiki_progress(pct, msg): the cancel flag is checked first, then the row
\* is updated and the event published
wiki_progress(pct, nextpc) ==
    IF wJob.task \in cancelFlag
       THEN /\ Raise("cancelled")
            /\ UNCHANGED <<tasks, repos, events, wStatus, wPathDirty>>
       ELSE update_task("generating", WikiPct(pct), nextpc)

\* generate_wiki: cancel_checker(), then progress_callback(10, ...)
WikiOutlineRows ==
    /\ pc = "wiki_outline"
    /\ wiki_progress(WIKI_PCT_OUTLINE, "wiki_pages")
    /\ UNCHANGED <<nextRepo, nextTask, flushed, cancelFlag, queue,
                   deleting, wJob, wType, wStage, wRepo, wTotal, wBatch>>
    /\ UNCHANGED <<faults, budget, fsVars, serviceVars>>

WikiOutline == WikiOutlineRows /\ UNCHANGED storeVars

\* generate_wiki: progress_callback(50, ...) before the pages are generated
WikiPages ==
    /\ pc = "wiki_pages"
    /\ wiki_progress(WIKI_PCT_PAGES, "wiki_write")
    /\ UNCHANGED <<nextRepo, nextTask, flushed, cancelFlag, queue,
                   deleting, wJob, wType, wStage, wRepo, wTotal, wBatch>>
    /\ UNCHANGED <<faults, budget, fsVars, serviceVars, storeVars>>

\* cancel_checker() at a page boundary finds the flag
WikiCancelCheckRows ==
    /\ pc \in {"wiki_outline", "wiki_pages", "wiki_write"}
    /\ wJob.task \in cancelFlag
    /\ Raise("cancelled")
    /\ UNCHANGED <<wJob, wStatus, wType, wStage, wPathDirty, wRepo, wTotal, wBatch>>
    /\ UNCHANGED <<apiVars, events>>
    /\ UNCHANGED <<faults, budget, fsVars, serviceVars>>

WikiCancelCheck == WikiCancelCheckRows /\ UNCHANGED storeVars

\* an LLM or database error leaves the wiki generator
WikiRaise ==
    /\ pc \in {"wiki_outline", "wiki_pages", "wiki_write"}
    /\ Raise("error")
    /\ UNCHANGED <<wJob, wStatus, wType, wStage, wPathDirty, wRepo, wTotal, wBatch>>
    /\ UNCHANGED <<apiVars, events>>
    /\ Fault(TRUE)

\* the wiki generator returned: _update_task(COMPLETED, 100); the repository
\* becomes ready (not on the wiki_regenerate path); commit;
\* _publish(completed)
Complete ==
    /\ pc = "wiki_write"
    /\ LET t == wJob.task
           r == wJob.repo
           setReady == wType # "wiki_regenerate" /\ wRepo
       IN  CASE UpdateOutcome = "cancelled" ->
                  /\ Raise("cancelled")
                  /\ UNCHANGED <<tasks, repos, events, queue, wJob, wStatus,
                                 wType, wStage, wPathDirty, wRepo, wTotal, wBatch>>
             [] UpdateOutcome = "stale" \/ (UpdateOutcome = "ok" /\ setReady
                                            /\ repos[r] = NoRepo) ->
                  /\ Raise("error")
                  /\ UNCHANGED <<tasks, repos, events, queue, wJob, wStatus,
                                 wType, wStage, wPathDirty, wRepo, wTotal, wBatch>>
             [] OTHER ->
                  /\ tasks' = IF wStatus = "missing" THEN tasks
                              ELSE [tasks EXCEPT
                                      ![t] = UpdatedRow(@, "completed", PCT_COMPLETED)]
                  /\ repos' = IF setReady
                                 THEN [repos EXCEPT ![r].status = "ready"]
                                 ELSE repos
                  /\ events' = Publish(events, t, "completed", PCT_COMPLETED)
                  /\ Finish
    /\ UNCHANGED <<nextRepo, nextTask, flushed, cancelFlag, deleting>>
    /\ UNCHANGED <<faults, budget, fsVars, serviceVars, storeVars>>

\* except Exception of _run_task: rollback; a TaskCancelledException ends the
\* run quietly; anything else is written by _fail_task with the current
\* _stage, published as failed and re-raised
HandlerFailsAll ==
    /\ pc = "except"
    /\ tasks' = IF Visible(wJob.task)
                   THEN [tasks EXCEPT ![wJob.task] = FailedRow(@, wStage)]
                   ELSE tasks
    /\ events' = Publish(events, wJob.task, "failed", 0)
    /\ pc' = "retry"
    /\ wStatus' = "unloaded"
    /\ wPathDirty' = FALSE
    /\ UNCHANGED <<queue, wJob, wType, wStage, wExc, wRepo, wTotal, wBatch>>
    /\ UNCHANGED <<repos, nextRepo, nextTask, flushed, cancelFlag, deleting>>
    /\ UNCHANGED <<faults, budget, fsVars, serviceVars, storeVars>>

Handler ==
    /\ pc = "except"
    /\ IF wExc = "cancelled"
          THEN /\ Finish
               /\ UNCHANGED <<tasks, events>>
          ELSE /\ tasks' = IF Visible(wJob.task)
                              THEN [tasks EXCEPT ![wJob.task] = FailedRow(@, wStage)]
                              ELSE tasks
               /\ events' = Publish(events, wJob.task, "failed", 0)
               /\ pc' = "retry"
               /\ wStatus' = "unloaded"
               /\ wPathDirty' = FALSE
               /\ UNCHANGED <<queue, wJob, wType, wStage, wExc, wRepo, wTotal, wBatch>>
    /\ UNCHANGED <<repos, nextRepo, nextTask, flushed, cancelFlag, deleting>>
    /\ UNCHANGED <<faults, budget, fsVars, serviceVars, storeVars>>

\* the row as _reset_task_for_retry leaves it
ResetRow(row) ==
    IF row.status \notin {"interrupted", "cancelled"}
       THEN [row EXCEPT !.status = "pending", !.error_msg = "none",
                        !.failed_at_stage = "none"]
       ELSE row

\* the delay of a retry published without a countdown (default_retry_delay)
countdownDefault(retries) == 30

\* countdown = 30 * (2 ** self.request.retries), in seconds
countdown(retries) == 30 * (2 ^ retries)

\* except Exception of process_repository_task (a TaskCancelledException
\* never leaves _run_task): while retries are left the task is reset, a
\* failure of the reset being logged and ignored, and self.retry publishes
\* the job again with one more retry counted and the countdown; otherwise
\* the exception ends the job
Retry(resetOk) ==
    /\ pc = "retry"
    /\ IF wJob.retries < max_retries
          THEN /\ tasks' = IF Visible(wJob.task) /\ resetOk
                              THEN [tasks EXCEPT ![wJob.task] = ResetRow(@)]
                              ELSE tasks
               /\ queue' = (queue \ {wJob}) \cup
                             {[wJob EXCEPT !.retries = @ + 1,
                                           !.countdown = countdown(wJob.retries)]}
               /\ WorkerReset
               /\ Fault(~resetOk)
          ELSE /\ resetOk
               /\ Finish
               /\ UNCHANGED tasks
               /\ Fault(FALSE)
    /\ UNCHANGED <<repos, nextRepo, nextTask, flushed, cancelFlag,
                   events, deleting>>

Next ==
    \/ \E u \in Urls : submit_repository(u)
    \/ \E r \in RepoIds : reprocess_repository(r)
    \/ \E r \in RepoIds : sync_repository(r)
    \/ \E r \in RepoIds : regenerate_wiki(r)
    \/ \E f \in flushed : regenerate_wiki_commit(f)
    \/ \E t \in TaskIds, eff \in {"lost", "revoke", "kill"} : cancel_task(t, eff)
    \/ \E r \in RepoIds, revokeOk \in BOOLEAN, dbOk \in BOOLEAN :
          delete_repository(r, revokeOk, dbOk)
    \/ \E r \in RepoIds : delete_repository_cascade(r)
    \/ \E restart \in BOOLEAN : on_worker_ready(restart)
    \/ \E j \in queue : Dequeue(j)
    \/ \E ok \in BOOLEAN : InitRedis(ok)
    \/ OpenSession
    \/ EnterFirstStage
    \/ \E ok \in BOOLEAN : CloneDone(ok)
    \/ \E ok \in BOOLEAN : SyncDone(ok)
    \/ EnterParsing
    \/ \E n \in 0..EmbedBatches, raised \in BOOLEAN : ParseDone(n, raised)
    \/ EnterEmbedding
    \/ EmbedBatch
    \/ EmbedRaise
    \/ EnterGenerating
    \/ WikiOutline
    \/ WikiPages
    \/ WikiCancelCheck
    \/ WikiRaise
    \/ Complete
    \/ Handler
    \/ \E resetOk \in BOOLEAN : Retry(resetOk)

Spec == Init /\ [][Next]_vars

\* ------------------------------------------------------ retry specification
\* The job runner under repeated failures: submissions, cancellations and
\* the worker, with enough failures for every run of a job to fail.

InitRetry == Start /\ budget = MaxRetryFaults /\ parsable = Paths

NextRetry ==
    \/ \E u \in Urls : submit_repository(u)
    \/ \E t \in TaskIds, eff \in {"lost", "revoke", "kill"} : cancel_task(t, eff)
    \/ \E j \in queue : Dequeue(j)
    \/ \E ok \in BOOLEAN : InitRedis(ok)
    \/ OpenSession
    \/ EnterFirstStage
    \/ \E ok \in BOOLEAN : CloneDone(ok)
    \/ \E ok \in BOOLEAN : SyncDone(ok)
    \/ EnterParsing
    \/ \E n \in 0..EmbedBatches, raised \in BOOLEAN : ParseDone(n, raised)
    \/ EnterEmbedding
    \/ EmbedBatch
    \/ EmbedRaise
    \/ EnterGenerating
    \/ WikiOutline
    \/ WikiPages
    \/ WikiCancelCheck
    \/ WikiRaise
    \/ Complete
    \/ Handler
    \/ \E resetOk \in BOOLEAN : Retry(resetOk)

SpecRetry == InitRetry /\ [][NextRetry]_vars

\* --------------------------------------------- specification with progress
\* Submissions, wiki regeneration requests, cancellations and the worker,
\* where the worker process keeps running (a step of the job runner that can
\* be taken is eventually taken) and a request handler that has flushed its
\* row goes on to its commit.

InitLive == Start /\ budget = MaxRetryFaults /\ parsable = Paths

\* a step of the worker process: taking a job, or the next step of the run
WorkerStep ==
    \/ \E j \in queue : Dequeue(j)
    \/ \E ok \in BOOLEAN : InitRedis(ok)
    \/ OpenSession
    \/ EnterFirstStage
    \/ \E ok \in BOOLEAN : CloneDone(ok)
    \/ \E ok \in BOOLEAN : SyncDone(ok)
    \/ EnterParsing
    \/ \E n \in 0..EmbedBatches, raised \in BOOLEAN : ParseDone(n, raised)
    \/ EnterEmbedding
    \/ EmbedBatch
    \/ EmbedRaise
    \/ EnterGenerating
    \/ WikiOutline
    \/ WikiPages
    \/ WikiCancelCheck
    \/ WikiRaise
    \/ Complete
    \/ Handler
    \/ \E resetOk \in BOOLEAN : Retry(resetOk)

\* the handler of a request goes on after its flush
HandlerStep == \E f \in flushed : regenerate_wiki_commit(f)

NextLive ==
    \/ \E u \in Urls : submit_repository(u)
    \/ \E r \in RepoIds : regenerate_wiki(r)
    \/ \E t \in TaskIds, eff \in {"lost", "revoke", "kill"} : cancel_task(t, eff)
    \/ HandlerStep
    \/ WorkerStep

SpecLive ==
    /\ InitLive
    /\ [][NextLive]_vars
    /\ WF_vars(WorkerStep)
    /\ WF_vars(HandlerStep)

\* ------------------------------------------- directories and collections
\* The same handlers and worker steps with what they do to the clone
\* directory under REPOS_BASE_DIR and to the Chroma collection of the
\* repository, and the orphan cleanup of the system API.

\* delete_collection(repo_id), then rmtree(local_path) if local_path
RemoveStores(r, local_path) ==
    /\ chroma' = chroma \ {r}
    /\ clone_dir' = IF local_path THEN clone_dir \ {r} ELSE clone_dir

\* DELETE /api/repositories/{id}, up to the grace sleep. The handler loaded
\* the Repository object before; its session keeps attributes over a commit
\* (expire_on_commit=False) and a rollback expires them.
delete_repository_files(r, revokeOk, dbOk) ==
    /\ delete_repository_rows(r, revokeOk, dbOk)
    /\ IF ActiveTasks(r) = {}
          THEN /\ RemoveStores(r, repos[r].local_path)
               /\ UNCHANGED delete_path
          ELSE /\ delete_path' =
                    [delete_path EXCEPT
                       ![r] = IF ~dbOk THEN "expired"
                              ELSE IF repos[r].local_path THEN "set"
                              ELSE "null"]
               /\ UNCHANGED <<clone_dir, chroma>>
    /\ UNCHANGED cleanup

\* DELETE /api/repositories/{id}, after the grace sleep: local_path is read
\* from the object (an expired one is loaded again)
delete_repository_cascade_files(r) ==
    /\ delete_repository_cascade_rows(r)
    /\ RemoveStores(r, \/ delete_path[r] = "set"
                       \/ delete_path[r] = "expired" /\ repos[r].local_path)
    /\ delete_path' = [delete_path EXCEPT ![r] = "none"]
    /\ UNCHANGED cleanup

\* clone_repository removes a directory found at the target and runs git
\* clone, which leaves a directory only when it succeeds
CloneDoneFiles(ok) ==
    /\ CloneDoneRows(ok)
    /\ clone_dir' = IF ok THEN clone_dir \cup {wJob.repo}
                    ELSE clone_dir \ {wJob.repo}
    /\ UNCHANGED <<chroma, delete_path, cleanup>>

\* get_collection (get_or_create_collection) of the repository
GetCollection ==
    /\ chroma' = chroma \cup {wJob.repo}
    /\ UNCHANGED <<clone_dir, delete_path, cleanup>>

\* incremental_sync: get_collection precedes apply_incremental_sync
SyncDoneFiles(ok) == SyncDoneRows(ok) /\ GetCollection

\* embed_chunks: get_collection precedes the batches
EmbedBatchFiles == EmbedBatchRows /\ GetCollection

\* generate_codebase_index starts with get_collection
EnterGeneratingFiles == EnterGeneratingRows /\ GetCollection

\* generate_wiki: get_collection precedes cancel_checker()
WikiOutlineFiles == WikiOutlineRows /\ GetCollection

WikiCancelCheckFiles ==
    /\ WikiCancelCheckRows
    /\ IF pc = "wiki_outline" THEN GetCollection ELSE UNCHANGED storeVars

\* POST /cleanup/execute, the safety check: 409 while a task is outside
\* _TERMINAL_STATUSES
cleanup_execute ==
    /\ cleanup = "idle"
    /\ \A t \in TaskIds : Visible(t) => tasks[t].status \in TERMINAL
    /\ cleanup' = "scan"
    /\ UNCHANGED <<clone_dir, chroma, delete_path>>
    /\ UNCHANGED <<apiVars, events, faults, budget, workerVars>>
    /\ UNCHANGED <<fsVars, serviceVars>>

\* _scan_orphans: directories that are the local_path of no repository
orphan_dirs == {r \in clone_dir : ~(repos[r] # NoRepo /\ repos[r].local_path)}

\* _scan_orphans: collections named after no repository id
orphan_collections == {r \in chroma : repos[r] = NoRepo}

\* POST /cleanup/execute, after the check: _scan_orphans, _delete_dirs and
\* _delete_collections
cleanup_delete ==
    /\ cleanup = "scan"
    /\ clone_dir' = clone_dir \ orphan_dirs
    /\ chroma' = chroma \ orphan_collections
    /\ cleanup' = "idle"
    /\ UNCHANGED delete_path
    /\ UNCHANGED <<apiVars, events, faults, budget, workerVars>>
    /\ UNCHANGED <<fsVars, serviceVars>>

InitStore == Start /\ budget = MaxFaults /\ parsable = Paths

NextStore ==
    \/ \E u \in Urls : submit_repository(u)
    \/ \E t \in TaskIds, eff \in {"lost", "revoke", "kill"} : cancel_task(t, eff)
    \/ \E r \in RepoIds, revokeOk \in BOOLEAN, dbOk \in BOOLEAN :
          delete_repository_files(r, revokeOk, dbOk)
    \/ \E r \in RepoIds : delete_repository_cascade_files(r)
    \/ cleanup_execute
    \/ cleanup_delete
    \/ \E j \in queue : Dequeue(j)
    \/ \E ok \in BOOLEAN : InitRedis(ok)
    \/ OpenSession
    \/ EnterFirstStage
    \/ \E ok \in BOOLEAN : CloneDoneFiles(ok)
    \/ \E ok \in BOOLEAN : SyncDoneFiles(ok)
    \/ EnterParsing
    \/ \E n \in 0..EmbedBatches, raised \in BOOLEAN : ParseDone(n, raised)
    \/ EnterEmbedding
    \/ EmbedBatchFiles
    \/ EmbedRaise
    \/ EnterGeneratingFiles
    \/ WikiOutlineFiles
    \/ WikiPages
    \/ WikiCancelCheckFiles
    \/ WikiRaise
    \/ Complete
    \/ Handler
    \/ \E resetOk \in BOOLEAN : Retry(resetOk)

SpecStore == InitStore /\ [][NextStore]_vars

\* ============================================ FileState / vector-store ledger

\* what a SELECT on FileState answers inside the run's session: the committed
\* rows, minus the deletions and plus the rows the session has flushed
View(p) ==
    IF p \in sDeleted THEN NoFileState
    ELSE IF sWritten[p] # NoFileState THEN sWritten[p]
    ELSE file_state[p]

\* session.commit(): the flushed deletions and rows become the table
Commit ==
    /\ file_state' = [p \in Paths |-> View(p)]
    /\ sDeleted' = {}
    /\ sWritten' = [p \in Paths |-> NoFileState]

\* db.rollback(), or the session of a killed process: flushed work is gone
Rollback ==
    /\ sDeleted' = {}
    /\ sWritten' = [p \in Paths |-> NoFileState]
    /\ UNCHANGED file_state

\* the run is over: its locals are gone
RunOver ==
    /\ fpc' = "idle"
    /\ fType' = "none"
    /\ changes' = {}
    /\ chunks' = <<>>
    /\ file_hashes' = [p \in Paths |-> NoHash]
    /\ stored' = 0
    /\ fetched' = [p \in Paths |-> 0]
    /\ stdout' = {}
    /\ changed_paths' = {}

\* an external failure in a pipeline run: counted against the budget
FsFault(failed) ==
    IF failed THEN fsFaults < MaxFsFaults /\ fsFaults' = fsFaults + 1
    ELSE UNCHANGED fsFaults

\* a commit is pushed to the upstream branch: one path is added, modified
\* or removed
Push(p, c) ==
    /\ pushes < MaxPushes
    /\ c # origin[p]
    /\ origin' = [origin EXCEPT ![p] = c]
    /\ pushes' = pushes + 1
    /\ UNCHANGED <<disk, cloned, fetched, file_state, sDeleted, sWritten,
                   collection, nextChunk, embed_committed, fpc, fType, changes,
                   chunks, file_hashes, stored, runs, fsFaults>>
    /\ UNCHANGED <<parsable, stdout, changed_paths, wiki, fsEvent>>
    /\ UNCHANGED <<lifecycleVars, serviceVars>>

\* a commit that moves a file is pushed to the upstream branch
Rename(old, new) ==
    /\ pushes < MaxPushes
    /\ origin[old] # 0
    /\ origin[new] = 0
    /\ origin' = [origin EXCEPT ![old] = 0, ![new] = origin[old]]
    /\ pushes' = pushes + 1
    /\ UNCHANGED <<disk, cloned, fetched, file_state, sDeleted, sWritten,
                   collection, nextChunk, embed_committed, fpc, fType, changes,
                   chunks, file_hashes, stored, runs, fsFaults>>
    /\ UNCHANGED <<parsable, stdout, changed_paths, wiki, fsEvent>>
    /\ UNCHANGED <<lifecycleVars, serviceVars>>

\* the worker starts the pipeline of a full_process task (first submission
\* or reprocess) or of an incremental_sync task (sync, or submission of a
\* known URL), which needs the working copy
StartRun(type) ==
    /\ fpc = "idle"
    /\ runs < MaxRuns
    /\ type = "incremental_sync" => cloned
    /\ runs' = runs + 1
    /\ fType' = type
    /\ fpc' = "stage1"
    /\ UNCHANGED <<origin, disk, cloned, fetched, file_state, sDeleted, sWritten,
                   collection, nextChunk, embed_committed, changes, chunks,
                   file_hashes, stored, pushes, fsFaults>>
    /\ UNCHANGED <<parsable, stdout, changed_paths, wiki, fsEvent>>
    /\ UNCHANGED <<lifecycleVars, serviceVars>>

\* clone_repository: the target directory is removed and the branch cloned;
\* on failure the task is failed and the run returns
clone_repository(ok) ==
    /\ fpc = "stage1"
    /\ fType = "full_process"
    /\ FsFault(~ok)
    /\ IF ok
          THEN /\ disk' = origin
               /\ cloned' = TRUE
               /\ fpc' = "enter_parsing"
               /\ UNCHANGED <<fType, changes, chunks, file_hashes, stored, fetched,
                              stdout, changed_paths>>
          ELSE /\ disk' = [p \in Paths |-> 0]
               /\ cloned' = FALSE
               /\ RunOver
    /\ UNCHANGED <<origin, file_state, sDeleted, sWritten, collection, nextChunk,
                   embed_committed, runs, pushes, parsable, wiki, fsEvent>>
    /\ UNCHANGED <<lifecycleVars, serviceVars>>

\* the paths git finds deleted, added and modified between two trees
Deleted(head, remote) == {q \in Paths : head[q] # 0 /\ remote[q] = 0}
Added(head, remote) == {q \in Paths : head[q] = 0 /\ remote[q] # 0}
Modified(head, remote) ==
    {q \in Paths : head[q] # 0 /\ remote[q] # 0 /\ head[q] # remote[q]}

\* what git's rename detection may answer: deleted paths paired with added
\* paths, no path in two pairs
RenamePairings(head, remote) ==
    {R \in SUBSET (Deleted(head, remote) \X Added(head, remote)) :
        \A a \in R, b \in R : (a[1] = b[1] \/ a[2] = b[2]) => a = b}

\* the similarity index git prints after the R of a rename line
Similarity(c, d) == IF c = d THEN 100 ELSE 75

\* the output of git diff HEAD..origin/<branch> --name-status, one tuple of
\* tab-separated fields per line, the status field as <<letter, score>>. The
\* pairs are the renames git detected; typed are the modified paths whose
\* file type changed, which git lists with status T.
GitNameStatus(head, remote, pairs, typed) ==
    {<<(<<"R", Similarity(head[r[1]], remote[r[2]])>>), r[1], r[2]>> : r \in pairs}
    \cup {<<(<<"D", 0>>), p>> :
              p \in Deleted(head, remote) \ {r[1] : r \in pairs}}
    \cup {<<(<<"A", 0>>), p>> :
              p \in Added(head, remote) \ {r[2] : r \in pairs}}
    \cup {<<(<<"M", 0>>), p>> : p \in Modified(head, remote) \ typed}
    \cup {<<(<<"T", 0>>), p>> : p \in typed}

\* a line whose rename is kept as one entry
ParseLineKeepsRename(parts) == {<<parts[1][1], parts[Len(parts)]>>}

\* the parsing loop of _detect_changed_files_sync on one line: raw_type is
\* the first character of the first field; a rename becomes a deletion of
\* the old path and an addition of the new one, any other line an entry of
\* its raw type for its last field
ParseLine(parts) ==
    IF parts[1][1] = "R" /\ Len(parts) >= 3
       THEN {<<"D", parts[2]>>, <<"A", parts[3]>>}
       ELSE {<<parts[1][1], parts[Len(parts)]>>}

\* the (type, path) entries _detect_changed_files_sync returns
ParseNameStatus(lines) == UNION {ParseLine(l) : l \in lines}

\* _detect_changed_files_sync: git fetch, then the diff. A failure raises out
\* of apply_incremental_sync; the worker logs it and goes on to parsing.
detect_changed_files(ok, pairs, typed) ==
    /\ fpc = "stage1"
    /\ fType = "incremental_sync"
    /\ FsFault(~ok)
    /\ IF ok
          THEN /\ fetched' = origin
               /\ stdout' = GitNameStatus(disk, origin, pairs, typed)
               /\ changes' = ParseNameStatus(stdout')
               /\ fpc' = "sync_apply"
          ELSE /\ pairs = {}
               /\ typed = {}
               /\ fpc' = "enter_parsing"
               /\ UNCHANGED <<fetched, changes, stdout>>
    /\ UNCHANGED <<origin, disk, cloned, file_state, sDeleted, sWritten,
                   collection, nextChunk, embed_committed, fType, chunks,
                   file_hashes, stored, runs, pushes>>
    /\ UNCHANGED <<parsable, changed_paths, wiki, fsEvent>>
    /\ UNCHANGED <<lifecycleVars, serviceVars>>

\* the entry apply_incremental_sync handles next (the diff lists paths in
\* order)
NextChange == CHOOSE e \in changes : \A f \in changes : e[2] <= f[2]

\* one iteration of the loop of apply_incremental_sync: the path of the
\* entry joins changed_paths whatever its type. For a deleted or modified
\* path _delete_file_chunks removes the chunks the FileState row lists from
\* the collection, at once, and deletes the row in the session (flush, no
\* commit); an entry of any other type needs nothing.
delete_file_chunks ==
    /\ fpc = "sync_apply"
    /\ changes # {}
    /\ LET e == NextChange
           p == e[2]
       IN  /\ changes' = changes \ {e}
           /\ changed_paths' = changed_paths \cup {p}
           /\ IF e[1] \in {"D", "M"} /\ View(p) # NoFileState
                 THEN /\ collection' =
                           {c \in collection : c.id \notin View(p).chunk_ids}
                      /\ sDeleted' = sDeleted \cup {p}
                 ELSE UNCHANGED <<collection, sDeleted>>
    /\ UNCHANGED <<origin, disk, cloned, fetched, file_state, sWritten,
                   nextChunk, embed_committed, fpc, fType, chunks, file_hashes,
                   stored, runs, pushes, fsFaults>>
    /\ UNCHANGED <<parsable, stdout, wiki, fsEvent>>
    /\ UNCHANGED <<lifecycleVars, serviceVars>>

\* _git_merge_ff_only_sync: the working copy moves to the fetched commit.
\* When git refuses the merge the RuntimeError leaves apply_incremental_sync
\* before it returns its stats; the worker logs it, keeps the empty
\* sync_stats it started with, and goes on to parsing.
git_merge_ff_only(ok) ==
    /\ fpc = "sync_apply"
    /\ changes = {}
    /\ FsFault(~ok)
    /\ IF ok
          THEN /\ disk' = fetched
               /\ UNCHANGED changed_paths
          ELSE /\ changed_paths' = {}
               /\ UNCHANGED disk
    /\ fpc' = "enter_parsing"
    /\ UNCHANGED <<origin, cloned, fetched, file_state, sDeleted, sWritten,
                   collection, nextChunk, embed_committed, fType, changes,
                   chunks, file_hashes, stored, runs, pushes>>
    /\ UNCHANGED <<parsable, stdout, wiki, fsEvent>>
    /\ UNCHANGED <<lifecycleVars, serviceVars>>

\* _update_task(PARSING): the stage-entry update commits the run's session,
\* and with it whatever the sync stage flushed
commit_before_parsing ==
    /\ fpc = "enter_parsing"
    /\ Commit
    /\ fpc' = "parse"
    /\ UNCHANGED <<origin, disk, cloned, fetched, collection, nextChunk,
                   embed_committed, fType, changes, chunks, file_hashes, stored,
                   runs, pushes, fsFaults>>
    /\ UNCHANGED <<parsable, stdout, changed_paths, wiki, fsEvent>>
    /\ UNCHANGED <<lifecycleVars, serviceVars>>

\* force_full of _run_task: a full_process task rebuilds every file
ForceFull == fType = "full_process"

\* the skip test with its comparison the wrong way round
SkipsChanged(p, force_full) ==
    View(p) # NoFileState /\ View(p).file_hash # sha256(disk[p]) /\ ~force_full

\* parse_repository skips a file whose FileState row carries the digest of
\* its present content, unless force_full is set
Skips(p, force_full) ==
    View(p) # NoFileState /\ View(p).file_hash = sha256(disk[p]) /\ ~force_full

\* the files parse_repository gets chunks from: those on disk of a type it
\* parses, with something to chunk, that it does not skip
ParsedPaths ==
    {p \in Paths : disk[p] # 0 /\ p \in parsable /\ ~Skips(p, ForceFull)}

\* the n-th path of S in walk order
Rank(S, n) == CHOOSE p \in S : Cardinality({q \in S : q < p}) = n - 1

\* all_chunks: every parsed file yields its chunks, each with a fresh uuid4
ParsedChunks(S, first) ==
    [i \in 1..(Cardinality(S) * ChunksPerFile) |->
        [id |-> first + i - 1,
         file_path |-> Rank(S, ((i - 1) \div ChunksPerFile) + 1)]]

\* parse_repository and what _run_task does with its result: a full_process
\* run with no chunk is failed; embed_chunks is entered only with chunks.
\* Nothing is written to FileState here.
parse_repository ==
    /\ fpc = "parse"
    /\ LET S == ParsedPaths
           n == Cardinality(S) * ChunksPerFile
       IN  /\ nextChunk + n - 1 <= MaxChunkId
           /\ IF ForceFull /\ n = 0
                 THEN /\ RunOver
                      /\ UNCHANGED nextChunk
                 ELSE /\ chunks' = ParsedChunks(S, nextChunk)
                      /\ file_hashes' = [p \in Paths |->
                             IF p \in S THEN sha256(disk[p]) ELSE NoHash]
                      /\ nextChunk' = nextChunk + n
                      /\ stored' = 0
                      /\ fpc' = IF n = 0 THEN "index" ELSE "embedding"
                      /\ UNCHANGED <<fType, changes, fetched, stdout,
                                     changed_paths>>
    /\ UNCHANGED <<origin, disk, cloned, file_state, sDeleted, sWritten,
                   collection, embed_committed, runs, pushes, fsFaults>>
    /\ UNCHANGED <<parsable, wiki, fsEvent>>
    /\ UNCHANGED <<lifecycleVars, serviceVars>>

Min(a, b) == IF a < b THEN a ELSE b

\* one iteration of the batch loop of embed_chunks: the embedding API call
\* succeeded and collection.add stored the batch
embed_batch ==
    /\ fpc = "embedding"
    /\ stored < Len(chunks)
    /\ LET upto == Min(stored + BatchSize, Len(chunks))
       IN  /\ collection' = collection \cup {chunks[i] : i \in (stored + 1)..upto}
           /\ stored' = upto
    /\ UNCHANGED <<origin, disk, cloned, fetched, file_state, sDeleted, sWritten,
                   nextChunk, embed_committed, fpc, fType, changes, chunks,
                   file_hashes, runs, pushes, fsFaults>>
    /\ UNCHANGED <<parsable, stdout, changed_paths, wiki, fsEvent>>
    /\ UNCHANGED <<lifecycleVars, serviceVars>>

\* ids of the chunks of the run's list that are in the collection
StoredIds == {chunks[i].id : i \in 1..stored}

\* the embedding API call of a batch raises: _run_task rolls the session
\* back and fails the task
embed_api_fails ==
    /\ fpc = "embedding"
    /\ stored < Len(chunks)
    /\ FsFault(TRUE)
    /\ Rollback
    /\ RunOver
    /\ failed_stored' = failed_stored \cup StoredIds
    /\ UNCHANGED <<origin, disk, cloned, collection, nextChunk, embed_committed,
                   runs, pushes, parsable, wiki, fsEvent>>
    /\ UNCHANGED <<lifecycleVars, servicesOfRun>>

\* the batch loop left after its first batch
FirstBatchStored == stored >= Min(BatchSize, Len(chunks))

\* embed_chunks leaves its batch loop: every batch is stored
AllBatchesStored == stored = Len(chunks)

\* the FileState row embed_chunks builds for a path of the chunk list
NewFileState(p) ==
    [file_hash |-> file_hashes[p],
     chunk_ids |-> {chunks[i].id : i \in {j \in 1..Len(chunks) :
                                            chunks[j].file_path = p}}]

\* the tail of embed_chunks: one FileState row per path of the chunk list,
\* updated or added in the session, then db.flush()
embed_write_file_state ==
    /\ fpc = "embedding"
    /\ AllBatchesStored
    /\ sWritten' = [p \in Paths |->
           IF \E i \in 1..Len(chunks) : chunks[i].file_path = p
              THEN NewFileState(p) ELSE sWritten[p]]
    /\ fpc' = "index"
    /\ UNCHANGED <<origin, disk, cloned, fetched, file_state, sDeleted,
                   collection, nextChunk, embed_committed, fType, changes,
                   chunks, file_hashes, stored, runs, pushes, fsFaults>>
    /\ UNCHANGED <<parsable, stdout, changed_paths, wiki, fsEvent>>
    /\ UNCHANGED <<lifecycleVars, serviceVars>>

\* generate_codebase_index commits the session (and if it raises first,
\* _update_task(GENERATING) does): the embedding stage is committed. The
\* rest of the run touches neither FileState nor the collection.
commit_after_embedding ==
    /\ fpc = "index"
    /\ Commit
    /\ embed_committed' = (embed_committed \/ chunks # <<>>)
    /\ fpc' = "generating"
    /\ UNCHANGED <<origin, disk, cloned, fetched, collection, nextChunk, fType,
                   changes, chunks, file_hashes, stored, runs, pushes, fsFaults>>
    /\ UNCHANGED <<parsable, stdout, changed_paths, wiki, fsEvent>>
    /\ UNCHANGED <<lifecycleVars, serviceVars>>

\* the branch of stage 4: update_wiki_incrementally for an incremental_sync
\* run whose sync_stats list changed paths, generate_wiki otherwise
UpdatesIncrementally == fType = "incremental_sync" /\ changed_paths # {}

\* the answers of update_wiki_incrementally
WikiOutcomes == {"no_wiki", "updated", "full_regen_suggested"}

\* stage 4 and the completion of the run. generate_wiki deletes the Wiki of
\* the repository and writes a new one. update_wiki_incrementally falls back
\* to generate_wiki when there is no Wiki (no_wiki), rewrites the pages the
\* changed paths touch (updated), or, when too large a share of the pages
\* is touched, writes nothing and suggests a full regeneration. The
\* completed event carries wiki_id and the suggestion.
wiki_stage(outcome) ==
    /\ fpc = "generating"
    /\ IF UpdatesIncrementally
          THEN /\ outcome = "no_wiki" <=> wiki = 0
               /\ wiki' = IF outcome = "full_regen_suggested" THEN wiki ELSE runs
          ELSE /\ outcome = "no_wiki"
               /\ wiki' = runs
    /\ fsEvent' = [status |-> "completed", wiki_id |-> wiki',
                   wiki_regen_suggestion |->
                       (UpdatesIncrementally /\ outcome = "full_regen_suggested")]
    /\ RunOver
    /\ failed_stored' = {}
    /\ UNCHANGED <<origin, disk, cloned, file_state, sDeleted, sWritten,
                   collection, nextChunk, embed_committed, runs, pushes,
                   fsFaults, parsable>>
    /\ UNCHANGED <<lifecycleVars, servicesOfRun>>

\* the worker process running the pipeline is terminated (cancel_task
\* revokes with terminate=True) or crashes: its session is never committed
worker_killed ==
    /\ fpc # "idle"
    /\ FsFault(TRUE)
    /\ Rollback
    /\ RunOver
    /\ failed_stored' = IF fpc = "embedding" THEN failed_stored \cup StoredIds
                        ELSE failed_stored
    /\ UNCHANGED <<origin, disk, cloned, collection, nextChunk, embed_committed,
                   runs, pushes, parsable, wiki, fsEvent>>
    /\ UNCHANGED <<lifecycleVars, servicesOfRun>>

NextFS ==
    \/ \E p \in Paths, c \in 0..MaxContent : Push(p, c)
    \/ \E old \in Paths, new \in Paths : Rename(old, new)
    \/ \E type \in {"full_process", "incremental_sync"} : StartRun(type)
    \/ \E ok \in BOOLEAN : clone_repository(ok)
    \/ \E ok \in BOOLEAN, pairs \in RenamePairings(disk, origin),
          typed \in SUBSET Modified(disk, origin) :
          detect_changed_files(ok, pairs, typed)
    \/ delete_file_chunks
    \/ \E ok \in BOOLEAN : git_merge_ff_only(ok)
    \/ commit_before_parsing
    \/ parse_repository
    \/ embed_batch
    \/ embed_api_fails
    \/ embed_write_file_state
    \/ commit_after_embedding
    \/ \E outcome \in WikiOutcomes : wiki_stage(outcome)
    \/ worker_killed

\* the repositories the pipeline is run on: any set of parsable paths with
\* at least one file to parse
InitFS ==
    /\ Start
    /\ budget = MaxFaults
    /\ parsable \in {S \in SUBSET Paths : S # {}}

SpecFS == InitFS /\ [][NextFS]_vars

\* ------------------------------------------------------------ wiki stage
\* Stage 4 of _run_task and the wiki_regenerate fast path, with the rows of
\* one repository's wiki.  A page's content_md and summary are the number of
\* the stage whose LLM calls produced them.  Percentages are in thousandths.

FULL_REGEN_THRESHOLD == 65
SECTION_TITLE_THRESHOLD == 80
SECTION_EVAL_THRESHOLD == 20

\* actual_pct = 75 + pct * 0.2
ActualPct(pct) == 75000 + pct \div 5

\* round(progress, 1)
Round1(pct) == ((pct + 50) \div 100) * 100

\* generate_wiki: pct = 50 + pages_done / total_technical * 35
PagePct(page_count, total_technical) ==
    50000 + (page_count * 35000) \div total_technical

\* regenerate_specific_pages: pct = 15 + (len(qs_pages) + updated) / total * 80
RegenPct(qs, updated, total) == 15000 + ((qs + updated) * 80000) \div total

\* the rows update_wiki_incrementally loads
TechRows == {p \in TechPages : wiki_pages[p] # NoPage}
QuickStartRows == IF quick_start # 0 THEN 2 ELSE 0
all_pages == Cardinality(TechRows) + QuickStartRows

changed_norm(changed_files) == {norm(f) : f \in changed_files}
relevant_norm(p) == {norm(f) : f \in wiki_pages[p].relevant_files}

dirty_pages(changed_files) ==
    {p \in TechRows : relevant_norm(p) \cap changed_norm(changed_files) # {}}

SuggestsFullRegenLate(dirty, total) == dirty * 100 > SECTION_TITLE_THRESHOLD * total

\* affected_ratio > FULL_REGEN_THRESHOLD
SuggestsFullRegen(dirty, total) == dirty * 100 > FULL_REGEN_THRESHOLD * total

\* the sections whose title the incremental update puts to the LLM
TitleCandidates(dirty) ==
    IF Cardinality(dirty) * 100 > SECTION_EVAL_THRESHOLD * all_pages
       THEN {sec \in Sections :
                LET section_pages == {p \in TechRows : SectionOf(p) = sec}
                IN  /\ section_pages # {}
                    /\ Cardinality(section_pages \cap dirty) * 100
                         >= SECTION_TITLE_THRESHOLD * Cardinality(section_pages)}
       ELSE {}

Failures(S) == {F \in SUBSET S : Cardinality(F) <= MaxPageFailures}

Outlines(n) == [1..n -> RelevantChoices]

\* what the stage writes to the task row and publishes, given the
\* percentages its progress callback received
Progress(callbacks, last) ==
    /\ row_pcts' = {75000} \cup {ActualPct(c) : c \in callbacks}
                           \cup (IF last = "completed" THEN {100000} ELSE {})
    /\ event_pcts' = {Round1(75000)} \cup {Round1(ActualPct(c)) : c \in callbacks}
                       \cup {Round1(IF last = "completed" THEN 100000 ELSE 0)}

\* _publish(task_id, "completed", 100, ...) with its optional keys
Completed(wiki_id, suggestion, wiki_skipped) ==
    terminal_event' =
        [status |-> "completed", wiki_id |-> wiki_id,
         wiki_regen_suggestion |-> suggestion,
         skipped_pages |-> wiki_skipped]

\* dict.get("skipped_pages", 0)
GetSkipped(result) ==
    IF result.skipped_pages = NoKey THEN 0 ELSE result.skipped_pages

\* generate_wiki: the old wiki is deleted, the pages of the new outline whose
\* generation did not raise are written, then the quick-start pages
generate_wiki(n, relevant, failed) ==
    /\ wiki_row' = generation'
    /\ wiki_pages' =
         [p \in TechPages |->
            IF p <= n /\ p \notin failed
               THEN [relevant_files |-> relevant[p],
                     content_md |-> generation', summary |-> generation']
               ELSE NoPage]
    /\ section_title' =
         [sec \in Sections |->
            IF \E p \in 1..n : SectionOf(p) = sec THEN generation' ELSE 0]
    /\ quick_start' = generation'
    /\ page_failures' = failed

GenerateCallbacks(n, failed) ==
    {10000, 88000}
      \cup (IF n > 0 THEN {50000} ELSE {})
      \cup {PagePct(k, n) : k \in 1..(n - Cardinality(failed))}

GenerateResult(status, n, failed) ==
    [status |-> status, wiki_id |-> generation', updated_pages |-> 0,
     skipped_pages |-> Cardinality(failed), dirty |-> 0, total |-> n + 2,
     suggestion_reason |-> FALSE]

\* the outline request raises: nothing was flushed, the handler fails the task
outline_raises(type) ==
    /\ generation < MaxGenerations
    /\ type = "full_process" \/ generation > 0
    /\ generation' = generation + 1
    /\ wiki_task' = WikiTask(type, {})
    /\ wiki_result' = [NoWikiResult EXCEPT !.status = "raised"]
    /\ terminal_event' = [NoTerminalEvent EXCEPT !.status = "failed"]
    /\ Progress({10000}, "failed")
    /\ page_failures' = {}
    /\ UNCHANGED <<wiki_row, wiki_pages, quick_start, section_title>>
    /\ UNCHANGED <<lifecycleVars, fsVars, pageVars, redactVars, otherVars>>

\* stage 4 when the task is not incremental or changed_paths is empty, and
\* wiki_regenerate without a page list
full_generation(type, n, relevant, failed) ==
    /\ generation < MaxGenerations
    /\ type = "full_process" \/ generation > 0
    /\ generation' = generation + 1
    /\ wiki_task' = WikiTask(type, {})
    /\ generate_wiki(n, relevant, failed)
    /\ wiki_result' = GenerateResult("none", n, failed)
    /\ Completed(wiki_result'.wiki_id, FALSE, GetSkipped(wiki_result'))
    /\ Progress(GenerateCallbacks(n, failed), "completed")
    /\ UNCHANGED <<lifecycleVars, fsVars, pageVars, redactVars, otherVars>>

\* update_wiki_incrementally on a wiki with pages
UpdateResult(status, dirty, updated) ==
    [status |-> status, wiki_id |-> wiki_row, updated_pages |-> updated,
     skipped_pages |-> NoKey, dirty |-> Cardinality(dirty), total |-> all_pages,
     suggestion_reason |-> status = "full_regen_suggested"]

\* stage 4 of an incremental_sync task whose changed_paths is not empty, on a
\* repository without wiki pages: update_wiki_incrementally falls back to
\* generate_wiki
incremental_no_wiki(changed_files, n, relevant, failed) ==
    /\ generation \in 1..(MaxGenerations - 1)
    /\ generation' = generation + 1
    /\ changed_files # {}
    /\ wiki_task' = WikiTask("incremental_sync", changed_files)
    /\ wiki_row = 0 \/ all_pages = 0
    /\ generate_wiki(n, relevant, failed)
    /\ wiki_result' = [GenerateResult("no_wiki", n, failed) EXCEPT !.total = 0]
    /\ Progress(GenerateCallbacks(n, failed), "completed")
    /\ Completed(wiki_result'.wiki_id, FALSE, GetSkipped(wiki_result'))
    /\ UNCHANGED <<lifecycleVars, fsVars, pageVars, redactVars, otherVars>>

\* the same stage on a wiki with pages: failed are the dirty pages whose
\* generation raises, retitled the sections the LLM gives a new title
incremental_update(changed_files, failed, retitled) ==
    /\ generation \in 1..(MaxGenerations - 1)
    /\ generation' = generation + 1
    /\ changed_files # {}
    /\ wiki_task' = WikiTask("incremental_sync", changed_files)
    /\ wiki_row # 0 /\ all_pages # 0
    /\ LET dirty == dirty_pages(changed_files) IN
       IF SuggestsFullRegen(Cardinality(dirty), all_pages)
          THEN /\ failed = {}
               /\ retitled = {}
               /\ wiki_result' = UpdateResult("full_regen_suggested", dirty, 0)
               /\ Progress({}, "completed")
               /\ page_failures' = {}
               /\ UNCHANGED <<wiki_pages, quick_start, section_title>>
          ELSE /\ failed \subseteq dirty
               /\ retitled \subseteq TitleCandidates(dirty)
               /\ wiki_pages' =
                    [p \in TechPages |->
                       IF p \in dirty \ failed
                          THEN [wiki_pages[p] EXCEPT !.content_md = generation',
                                                     !.summary = generation']
                          ELSE wiki_pages[p]]
               /\ section_title' =
                    [sec \in Sections |->
                       IF sec \in retitled THEN generation'
                                           ELSE section_title[sec]]
               /\ quick_start' = generation'
               /\ page_failures' = failed
               /\ wiki_result' =
                    UpdateResult("updated", dirty, Cardinality(dirty \ failed))
               /\ Progress({5000, 15000, 96000, 99000}, "completed")
    /\ Completed(wiki_row, wiki_result'.suggestion_reason,
                 GetSkipped(wiki_result'))
    /\ UNCHANGED wiki_row
    /\ UNCHANGED <<lifecycleVars, fsVars, pageVars, redactVars, otherVars>>

\* regenerate_specific_pages finds no Wiki row: ValueError, the task fails
regenerate_without_wiki ==
    /\ generation \in 1..(MaxGenerations - 1)
    /\ generation' = generation + 1
    /\ wiki_task' = WikiTask("wiki_regenerate", {})
    /\ wiki_row = 0
    /\ wiki_result' = [NoWikiResult EXCEPT !.status = "raised"]
    /\ terminal_event' = [NoTerminalEvent EXCEPT !.status = "failed"]
    /\ Progress({}, "failed")
    /\ page_failures' = {}
    /\ UNCHANGED <<wiki_row, wiki_pages, quick_start, section_title>>
    /\ UNCHANGED <<lifecycleVars, fsVars, pageVars, redactVars, otherVars>>

RegenCallbacks(qs, first, written, total, synced) ==
    (IF total > 0 THEN {10000} ELSE {})
      \cup (IF qs > 0 THEN {15000} ELSE {})
      \cup {RegenPct(qs, first + k, total) : k \in 1..written}
      \cup (IF synced THEN {97000} ELSE {})

\* the wiki_regenerate fast path with a page list: tech and qs are the rows
\* the ids select, failed the technical pages whose generation raises, qsOk
\* and syncOk whether the two quick-start regenerations go through
regenerate_specific_pages(tech, qs, failed, qsOk, syncOk) ==
    /\ generation < MaxGenerations
    /\ generation' = generation + 1
    /\ wiki_task' = WikiTask("wiki_regenerate", {})
    /\ wiki_row # 0
    /\ tech \subseteq TechRows
    /\ qs \in 0..QuickStartRows
    /\ failed \subseteq tech
    /\ LET total == Cardinality(tech) + qs
           first == IF qs > 0 /\ qsOk THEN qs ELSE 0
           written == Cardinality(tech \ failed)
           updated == first + written
           skipped == (IF qs > 0 /\ ~qsOk THEN qs ELSE 0) + Cardinality(failed)
           synced == tech # {} /\ updated > 0
       IN  /\ wiki_pages' =
                [p \in TechPages |->
                   IF p \in tech \ failed
                      THEN [wiki_pages[p] EXCEPT !.content_md = generation',
                                                 !.summary = generation']
                      ELSE wiki_pages[p]]
           /\ quick_start' =
                IF (qs > 0 /\ qsOk) \/ (synced /\ syncOk)
                   THEN generation' ELSE quick_start
           /\ page_failures' = failed
           /\ wiki_result' =
                [status |-> "none", wiki_id |-> wiki_row,
                 updated_pages |-> IF total = 0 THEN 0 ELSE updated,
                 skipped_pages |-> skipped, dirty |-> qs, total |-> total,
                 suggestion_reason |-> FALSE]
           /\ Progress(RegenCallbacks(qs, first, written, total, synced),
                       "completed")
    /\ Completed(wiki_row, FALSE, GetSkipped(wiki_result'))
    /\ UNCHANGED <<wiki_row, section_title>>
    /\ UNCHANGED <<lifecycleVars, fsVars, pageVars, redactVars, otherVars>>

NextWiki ==
    \/ \E type \in GeneratingTypes : outline_raises(type)
    \/ \E type \in GeneratingTypes : \E n \in 0..MaxTechPages :
         \E relevant \in Outlines(n) : \E failed \in Failures(1..n) :
           full_generation(type, n, relevant, failed)
    \/ \E changed_files \in SUBSET GitPaths : \E n \in 0..MaxTechPages :
         \E relevant \in Outlines(n) : \E failed \in Failures(1..n) :
           incremental_no_wiki(changed_files, n, relevant, failed)
    \/ \E changed_files \in SUBSET GitPaths :
         \E failed \in Failures(TechRows) : \E retitled \in SUBSET Sections :
           incremental_update(changed_files, failed, retitled)
    \/ regenerate_without_wiki
    \/ \E tech \in SUBSET TechRows : \E qs \in 0..QuickStartRows :
         \E failed \in Failures(tech) : \E qsOk, syncOk \in BOOLEAN :
           regenerate_specific_pages(tech, qs, failed, qsOk, syncOk)

InitWiki == Start /\ budget = MaxFaults /\ parsable = Paths

SpecWiki == InitWiki /\ [][NextWiki]_vars

\* ------------------------------------------------ content of one wiki page

\* the replacement fields of PAGE_CONTENT_PROMPT
PAGE_CONTENT_PROMPT ==
    {"page_title", "section_title", "repo_name", "code_context",
     "mermaid_constraints", "language"}

\* the keyword arguments of the two .format calls on it
SingleAgentKeywords ==
    {"page_title", "section_title", "repo_name", "code_context",
     "mermaid_constraints", "language"}
DegradationKeywords ==
    {"page_title", "section_title", "repo_name", "code_context",
     "mermaid_constraints"}

\* str.format raises KeyError for a field with no keyword argument
FormatRaises(template, keywords) == ~(template \subseteq keywords)

\* is_token_overflow(e)
is_token_overflow(answer) == answer = "overflow"

\* one request and how it ends: the contexts sent and the result
Attempt(calls, result) == [calls |-> calls, result |-> result]

\* _try_generate(ctx): the prompt is formatted, then the request is sent
TryGenerate(ctx, answer) ==
    IF FormatRaises(PAGE_CONTENT_PROMPT, DegradationKeywords)
       THEN Attempt(<<>>, "KeyError")
       ELSE Attempt(<<ctx>>, answer)

\* generate_with_degradation: 50 %, 25 %, then the file list; an exception
\* that is no token overflow ends the chain
generate_with_degradation(in) ==
    LET first == TryGenerate(Code(in.len \div 2), in.half)
        second == TryGenerate(Code(in.len \div 4), in.quarter)
        third == TryGenerate(FileList, in.minimal)
    IN  IF ~is_token_overflow(first.result) THEN first
        ELSE IF ~is_token_overflow(second.result)
                THEN Attempt(first.calls \o second.calls, second.result)
        ELSE Attempt(first.calls \o second.calls \o third.calls, third.result)

\* _generate_page_content after the three agents: with a merged text it goes
\* on to post-processing; with none the single-agent request is sent with
\* the whole context, and a token overflow hands over to the degradation
_generate_page_content(in) ==
    IF ~in.merged_empty THEN Attempt(<<>>, "ok")
    ELSE IF FormatRaises(PAGE_CONTENT_PROMPT, SingleAgentKeywords)
            THEN Attempt(<<>>, "KeyError")
    ELSE IF is_token_overflow(in.single)
            THEN LET degraded == generate_with_degradation(in)
                 IN  Attempt(<<Code(in.len)>> \o degraded.calls, degraded.result)
    ELSE Attempt(<<Code(in.len)>>, in.single)

PageInputs ==
    [len : 0..MaxContext, merged_empty : BOOLEAN, single : Answers,
     half : Answers, quarter : Answers, minimal : Answers]

\* generate_wiki, one page: _gen_one runs _generate_page_content; gather
\* returns the exception of a page that raised and the page is skipped
gen_one(in) ==
    /\ pages_done < MaxPageRuns
    /\ pages_done' = pages_done + 1
    /\ page_input' = in
    /\ LET run == _generate_page_content(in)
       IN  /\ llm_contexts' = run.calls
           /\ page_result' = IF run.result = "ok" THEN "content" ELSE "raised"
           /\ skipped_count' = IF run.result = "ok" THEN skipped_count
                               ELSE skipped_count + 1
    /\ UNCHANGED <<lifecycleVars, fsVars, wikiVars, redactVars, otherVars>>

\* generate_wiki returns: the next run starts with no page done
generate_wiki_returns ==
    /\ pages_done > 0
    /\ pages_done' = 0
    /\ skipped_count' = 0
    /\ page_input' = NoPageInput
    /\ llm_contexts' = <<>>
    /\ page_result' = "none"
    /\ UNCHANGED <<lifecycleVars, fsVars, wikiVars, redactVars, otherVars>>

NextPage ==
    \/ \E in \in PageInputs : gen_one(in)
    \/ generate_wiki_returns

InitPage == Start /\ budget = MaxFaults /\ parsable = Paths

SpecPage == InitPage /\ [][NextPage]_vars

\* ------------------------------------------------- error texts of a task

\* pieces of a text, each standing for the strings one regular expression
\* matches: an HTTPS URL prefix with oauth2 credentials, a ghp_ token, a
\* glpat- token, a Bearer token, a token= parameter, and any other word
Pieces ==
    {"https://oauth2:x@", "ghp_x", "glpat-x", "Bearer x", "token=x", "word"}

\* TokenScrubFilter.PATTERNS, by the piece each pattern matches
PATTERNS == {"https://oauth2:x@", "ghp_x", "glpat-x", "Bearer x", "token=x"}

\* the patterns of the three re.sub calls of the except clause
HandlerPatterns == <<"https://oauth2:x@", "ghp_x", "glpat-x">>

\* what each of the three calls puts in place of a match
HandlerReplacements == <<"https://[REDACTED]@", "[REDACTED]", "[REDACTED]">>

\* re.sub(pattern, repl, text)
ReSub(pattern, repl, text) ==
    [i \in DOMAIN text |-> IF text[i] = pattern THEN repl ELSE text[i]]

\* the except clause's three substitutions, one after the other
Redact(text) ==
    ReSub(HandlerPatterns[3], HandlerReplacements[3],
          ReSub(HandlerPatterns[2], HandlerReplacements[2],
                ReSub(HandlerPatterns[1], HandlerReplacements[1], text)))

Texts == UNION {[1..n -> Pieces] : n \in 0..MaxWords}

\* except Exception as e (not a cancellation): the redacted str(e) is stored
\* by _fail_task and published after the prefix of the failed event
handler_fails(e) ==
    /\ exc_text' = e
    /\ error_text' = Redact(e)
    /\ event_text' = <<"word">> \o Redact(e)
    /\ UNCHANGED <<lifecycleVars, fsVars, wikiVars, pageVars, otherVars>>

\* init_redis raised: the text goes to _fail_task after a prefix, as it is;
\* nothing is published
redis_init_fails(e) ==
    /\ exc_text' = e
    /\ error_text' = <<"word">> \o e
    /\ event_text' = <<>>
    /\ UNCHANGED <<lifecycleVars, fsVars, wikiVars, pageVars, otherVars>>

NextRedact ==
    \/ \E e \in Texts : handler_fails(e)
    \/ \E e \in Texts : redis_init_fails(e)

InitRedact == Start /\ budget = MaxFaults /\ parsable = Paths

SpecRedact == InitRedact /\ [][NextRedact]_vars

\* ------------------------------------------------------- sliding-window chunker

MAX_CHUNK_TOKENS == 6000
OVERLAP_LINES == 20

\* widths of the lines of a chunk (characters per line, all lines alike)
LineWidths == {0, 40, 120}

\* a chunk as a parser hands it over: n lines of w characters
Chunk(n, w) ==
    [id |-> 1, start_line |-> 1, end_line |-> n, from |-> 0, to |-> n,
     width |-> w, part |-> 0 - 1, parent_id |-> 0]

\* len(chunk.content): the lines and the newlines between them
ContentLen(c) == (c.to - c.from) * c.width + (c.to - c.from - 1)

\* estimated_tokens = len(chunk.content) // 4
estimated_tokens(c) == ContentLen(c) \div 4

\* len(chunk.content.split("\n"))
total_lines(c) == c.to - c.from

window_size == (MAX_CHUNK_TOKENS * 4) \div 80

step ==
    IF window_size - OVERLAP_LINES <= 0 THEN window_size
    ELSE window_size - OVERLAP_LINES

\* the while loop of split_large_chunk from `start` on: one ChunkNode (a
\* fresh uuid4 id) per window lines[start:end]
RECURSIVE sub_chunks(_, _, _)
sub_chunks(c, start, part_index) ==
    IF start < total_lines(c)
       THEN LET end == IF start + window_size < total_lines(c)
                          THEN start + window_size ELSE total_lines(c)
            IN  <<[id |-> c.id + 1 + part_index,
                   start_line |-> c.start_line + start,
                   end_line |-> c.start_line + end - 1,
                   from |-> start, to |-> end, width |-> c.width,
                   part |-> part_index, parent_id |-> c.id]>>
                \o sub_chunks(c, start + step, part_index + 1)
       ELSE <<>>

split_large_chunk(c) ==
    IF estimated_tokens(c) <= MAX_CHUNK_TOKENS THEN <<c>>
    ELSE sub_chunks(c, 0, 0)

\* a parser passes one of its chunks through split_large_chunk
split_chunk(n, w) ==
    /\ chunk_in' = Chunk(n, w)
    /\ chunk_out' = split_large_chunk(Chunk(n, w))
    /\ UNCHANGED <<lifecycleVars, fsVars, wikiVars, pageVars, redactVars,
                   wikiRowVars, cancelGenVars, failed_stored>>

NextChunker == \E n \in 1..MaxLines, w \in LineWidths : split_chunk(n, w)

InitChunker == Start /\ budget = MaxFaults /\ parsable = Paths

SpecChunker == InitChunker /\ [][NextChunker]_vars

\* ------------------------------------------- Wiki rows under two workers
\* The generate stage of generate_wiki as two worker processes run it, each
\* in the session of its own run: what each session reads, flushes and
\* commits of the repository's Wiki rows.

sessionFrame ==
    <<lifecycleVars, fsVars, wikiVars, pageVars, redactVars, chunkVars,
      cancelGenVars, failed_stored>>

\* ids of the tasks in progress, and those of type wiki_regenerate
GenActive == DOMAIN gen_tasks
GenActiveWiki == {t \in GenActive : gen_tasks[t] = "wiki_regenerate"}

\* a task is created for the repository: regenerate_wiki refuses only a
\* wiki_regenerate task in progress, submit / reprocess / sync any task in
\* progress
create_task(type) ==
    /\ next_gen <= MaxGenTasks
    /\ IF type = "wiki_regenerate" THEN GenActiveWiki = {} ELSE GenActive = {}
    /\ gen_tasks' = [t \in GenActive \cup {next_gen} |->
                        IF t = next_gen THEN type ELSE gen_tasks[t]]
    /\ next_gen' = next_gen + 1
    /\ UNCHANGED <<wikis, next_wiki, gen>>
    /\ UNCHANGED sessionFrame

\* worker w runs task t and reaches generate_wiki
enter_generate_wiki(w, t) ==
    /\ gen[w] = NoGen
    /\ t \in GenActive
    /\ \A v \in Workers : gen[v].task # t
    /\ gen' = [gen EXCEPT ![w] = [NoGen EXCEPT !.task = t, !.pc = "select"]]
    /\ UNCHANGED <<wikis, next_wiki, gen_tasks, next_gen>>
    /\ UNCHANGED sessionFrame

\* the task of worker w is over: its row leaves the tasks in progress
EndGen(w) ==
    /\ gen' = [gen EXCEPT ![w] = NoGen]
    /\ gen_tasks' = [t \in GenActive \ {gen[w].task} |-> gen_tasks[t]]

\* select(Wiki).where(repo_id == r) ... scalar_one_or_none(): the committed
\* rows; more than one row raises MultipleResultsFound, which fails the task
select_existing_wiki(w) ==
    /\ gen[w].pc = "select"
    /\ IF Cardinality(wikis) > 1
          THEN EndGen(w)
          ELSE /\ gen' = [gen EXCEPT
                            ![w].existing_wiki =
                                 IF wikis = {} THEN 0 ELSE CHOOSE x \in wikis : TRUE,
                            ![w].pc = "flush"]
               /\ UNCHANGED gen_tasks
    /\ UNCHANGED <<wikis, next_wiki, next_gen>>
    /\ UNCHANGED sessionFrame

\* if existing_wiki: db.delete, flush; db.add(Wiki(...)), flush. A DELETE
\* that matches no row any more (another session committed its deletion)
\* is either only warned about or raised as stale data
flush_wiki(w, stale_raises) ==
    /\ gen[w].pc = "flush"
    /\ LET old == gen[w].existing_wiki
           gone == old # 0 /\ old \notin wikis
       IN  /\ stale_raises => gone
           /\ IF stale_raises
                 THEN /\ EndGen(w)
                      /\ UNCHANGED next_wiki
                 ELSE /\ gen' = [gen EXCEPT
                                   ![w].deleted = IF old = 0 THEN {} ELSE {old},
                                   ![w].added = next_wiki,
                                   ![w].pc = "commit"]
                      /\ next_wiki' = next_wiki + 1
                      /\ UNCHANGED gen_tasks
    /\ UNCHANGED <<wikis, next_gen>>
    /\ UNCHANGED sessionFrame

\* progress_callback(50, ...): _update_task commits the run's session, and
\* with it the deletion and the new Wiki row
commit_wiki(w) ==
    /\ gen[w].pc = "commit"
    /\ wikis' = (wikis \ gen[w].deleted) \cup {gen[w].added}
    /\ gen' = [gen EXCEPT ![w].pc = "pages"]
    /\ UNCHANGED <<next_wiki, gen_tasks, next_gen>>
    /\ UNCHANGED sessionFrame

\* the pages are written and the task completes
complete_generate(w) ==
    /\ gen[w].pc = "pages"
    /\ EndGen(w)
    /\ UNCHANGED <<wikis, next_wiki, next_gen>>
    /\ UNCHANGED sessionFrame

\* an LLM call raises: the session is rolled back and the task fails
generate_raises(w) ==
    /\ gen[w].pc \in {"select", "flush", "commit", "pages"}
    /\ EndGen(w)
    /\ UNCHANGED <<wikis, next_wiki, next_gen>>
    /\ UNCHANGED sessionFrame

NextWikiRows ==
    \/ \E type \in GeneratingTypes : create_task(type)
    \/ \E w \in Workers, t \in 1..MaxGenTasks : enter_generate_wiki(w, t)
    \/ \E w \in Workers : select_existing_wiki(w)
    \/ \E w \in Workers, stale_raises \in BOOLEAN : flush_wiki(w, stale_raises)
    \/ \E w \in Workers : commit_wiki(w)
    \/ \E w \in Workers : complete_generate(w)
    \/ \E w \in Workers : generate_raises(w)

InitWikiRows == Start /\ budget = MaxFaults /\ parsable = Paths

SpecWikiRows == InitWikiRows /\ [][NextWikiRows]_vars

\* ------------------------------------- page generation and the cancel flag
\* The technical pages of one generation, step by step between its
\* suspension points: generate_wiki (full), regenerate_specific_pages
\* (selected) and update_wiki_incrementally (incremental), with the cancel
\* flag that the API may set at any of them. The two quick-start pages are
\* not followed beyond the flag checks that precede them.

cancelGenFrame ==
    <<lifecycleVars, fsVars, wikiVars, pageVars, redactVars, chunkVars,
      wikiRowVars, failed_stored>>

GenPaths == {"full", "selected", "incremental"}

\* what gather holds for a page once its sub-task is over
Gathered == {"none", "content", "failed", "cancelled"}

\* cancel_task / delete_repository set the flag in Redis
set_cancel_flag ==
    /\ ~cancel_requested
    /\ gen_pc \notin {"returned", "cancelled"}
    /\ cancel_requested' = TRUE
    /\ UNCHANGED <<gen_path, gen_pc, results, write_i, page_rows, title_rows,
                   cancelGenFrame>>

\* the generation begins on its pages (all pages of the outline on the full
\* path): the progress callbacks that precede the gather check the flag,
\* then the sub-tasks are created
start_generation(path, pages) ==
    /\ gen_pc = "idle"
    /\ path = "full" => pages = GenPages
    /\ gen_path' = path
    /\ IF cancel_requested
       THEN gen_pc' = "cancelled" /\ UNCHANGED results
       ELSE /\ gen_pc' = "gather"
            /\ results' = [p \in GenPages |->
                             IF p \in pages THEN "created" ELSE "none"]
    /\ UNCHANGED <<cancel_requested, write_i, page_rows, title_rows,
                   cancelGenFrame>>

\* _generate_one / _regen_one / _update_one: the sub-task of a page starts
\* with cancel_checker(), which raises when the flag is set
sub_task_starts(p) ==
    /\ gen_pc = "gather"
    /\ results[p] = "created"
    /\ results' = [results EXCEPT
                     ![p] = IF cancel_requested THEN "cancelled" ELSE "running"]
    /\ UNCHANGED <<cancel_requested, gen_path, gen_pc, write_i, page_rows,
                   title_rows, cancelGenFrame>>

\* the LLM calls of the sub-task return the page's content and summary, or
\* fail
sub_task_returns(p, ok) ==
    /\ gen_pc = "gather"
    /\ results[p] = "running"
    /\ results' = [results EXCEPT ![p] = IF ok THEN "content" ELSE "failed"]
    /\ UNCHANGED <<cancel_requested, gen_path, gen_pc, write_i, page_rows,
                   title_rows, cancelGenFrame>>

\* asyncio.gather(..., return_exceptions=True) returns once every sub-task
\* is over, with the exceptions among its results
gather_returns ==
    /\ gen_pc = "gather"
    /\ \A p \in GenPages : results[p] \in Gathered
    /\ gen_pc' = "write"
    /\ write_i' = 1
    /\ UNCHANGED <<cancel_requested, gen_path, results, page_rows, title_rows,
                   cancelGenFrame>>

\* one turn of the serial write loop of generate_wiki: a result that is an
\* exception is a skipped page; otherwise the page is added, the progress
\* callback checks the flag and commits, and the page is committed
write_page_full ==
    /\ gen_pc = "write" /\ gen_path = "full"
    /\ write_i <= MaxGenPages
    /\ IF results[write_i] # "content"
       THEN /\ write_i' = write_i + 1
            /\ UNCHANGED <<gen_pc, page_rows>>
       ELSE IF cancel_requested
       THEN /\ gen_pc' = "cancelled"
            /\ UNCHANGED <<write_i, page_rows>>
       ELSE /\ page_rows' = page_rows \cup {write_i}
            /\ write_i' = write_i + 1
            /\ UNCHANGED gen_pc
    /\ UNCHANGED <<cancel_requested, gen_path, results, title_rows,
                   cancelGenFrame>>

\* one turn of the write loop of regenerate_specific_pages: a result that is
\* an exception is a skipped page; otherwise content and summary are
\* assigned and committed, and then the progress callback checks the flag
write_page_selected ==
    /\ gen_pc = "write" /\ gen_path = "selected"
    /\ write_i <= MaxGenPages
    /\ IF results[write_i] # "content"
       THEN /\ write_i' = write_i + 1
            /\ UNCHANGED <<gen_pc, page_rows>>
       ELSE /\ page_rows' = page_rows \cup {write_i}
            /\ IF cancel_requested
               THEN gen_pc' = "cancelled" /\ UNCHANGED write_i
               ELSE write_i' = write_i + 1 /\ UNCHANGED gen_pc
    /\ UNCHANGED <<cancel_requested, gen_path, results, title_rows,
                   cancelGenFrame>>

\* the write loop is over: generate_wiki goes on to the quick-start pages,
\* regenerate_specific_pages does so only if it updated a page and returns
\* otherwise
write_loop_ends ==
    /\ gen_pc = "write" /\ gen_path \in {"full", "selected"}
    /\ write_i > MaxGenPages
    /\ gen_pc' = IF gen_path = "selected" /\ page_rows = {}
                 THEN "returned" ELSE "quick_start"
    /\ UNCHANGED <<cancel_requested, gen_path, results, write_i, page_rows,
                   title_rows, cancelGenFrame>>

\* update_wiki_incrementally after the gather: exceptions are passed over,
\* every result with content is assigned to its page, one commit
write_pages_incremental ==
    /\ gen_pc = "write" /\ gen_path = "incremental"
    /\ page_rows' = page_rows \cup {p \in GenPages : results[p] = "content"}
    /\ gen_pc' = "titles"
    /\ UNCHANGED <<cancel_requested, gen_path, results, write_i, title_rows,
                   cancelGenFrame>>

\* the section titles are evaluated, the new ones assigned and committed;
\* then cancel_checker()
update_section_titles(retitled) ==
    /\ gen_pc = "titles"
    /\ title_rows' = title_rows \cup retitled
    /\ gen_pc' = IF cancel_requested THEN "cancelled" ELSE "quick_start"
    /\ UNCHANGED <<cancel_requested, gen_path, results, write_i, page_rows,
                   cancelGenFrame>>

\* the progress callback before the quick-start pages and the
\* cancel_checker() of _regenerate_quick_start_pages check the flag; the
\* generation then returns
regenerate_quick_start ==
    /\ gen_pc = "quick_start"
    /\ gen_pc' = IF cancel_requested THEN "cancelled" ELSE "returned"
    /\ UNCHANGED <<cancel_requested, gen_path, results, write_i, page_rows,
                   title_rows, cancelGenFrame>>

NextCancelGen ==
    \/ set_cancel_flag
    \/ \E path \in GenPaths, pages \in SUBSET GenPages \ {{}} :
          start_generation(path, pages)
    \/ \E p \in GenPages : sub_task_starts(p)
    \/ \E p \in GenPages, ok \in BOOLEAN : sub_task_returns(p, ok)
    \/ gather_returns
    \/ write_page_full
    \/ write_page_selected
    \/ write_loop_ends
    \/ write_pages_incremental
    \/ \E retitled \in SUBSET Sections : update_section_titles(retitled)
    \/ regenerate_quick_start

InitCancelGen == Start /\ budget = MaxFaults /\ parsable = Paths

SpecCancelGen == InitCancelGen /\ [][NextCancelGen]_vars

\* ===================================================================== claims

NonTerminal(t) == Visible(t) /\ tasks[t].status \notin TERMINAL

\* C1 (terminal monotonicity): once a task's status is completed, failed,
\* cancelled or interrupted, no operation changes it to another status
\* (the deletion of the row is not a status change).
C1_TerminalMonotone ==
    [][\A t \in TaskIds :
          (tasks[t].status \in TERMINAL /\ tasks'[t] # NoTask)
             => tasks'[t].status = tasks[t].status]_vars

\* C2 (at most one active task): every repository has at most one task
\* whose status is outside {completed, failed, cancelled, interrupted}.
C2_AtMostOneActive ==
    \A r \in RepoIds :
        Cardinality({t \in TaskIds : NonTerminal(t) /\ tasks[t].repo = r}) <= 1

\* the job of task t is neither queued nor running
JobOver(t) == \A j \in queue : j.task # t

\* C3 (cancel dominance): a task whose cancel flag is set does not become
\* failed afterwards, and once its job is over its status is cancelled
\* (tasks of a repository that is being deleted are left out: their rows
\* are about to go).
C3_CancelDominance ==
    /\ [][\A t \in cancelFlag :
             (Visible(t) /\ tasks[t].status \notin {"failed", "completed", "interrupted"})
                => tasks'[t].status # "failed"]_vars
    /\ [](\A t \in cancelFlag :
             (Visible(t) /\ JobOver(t) /\ tasks[t].repo \notin deleting
              /\ tasks[t].status \notin {"failed", "completed", "interrupted"})
                => tasks[t].status = "cancelled")

StageStatus == {"cloning", "parsing", "embedding", "generating", "completed"}

\* C4 (no progress after cancel): once the cancel flag of a task is set, the
\* worker records no stage status and no progress on the task's row and
\* publishes no event for the task.
C4_NoProgressAfterCancel ==
    [][\A t \in cancelFlag :
          /\ events'[t] = events[t]
          /\ tasks'[t] # NoTask =>
                /\ tasks'[t].progress = tasks[t].progress
                /\ tasks'[t].status \in StageStatus
                      => tasks'[t].status = tasks[t].status]_vars

\* C9 (worker boot): the boot hook leaves every task that was non-terminal
\* in status interrupted, moves the repositories of those tasks to
\* interrupted unless they were ready or error, and leaves terminal tasks
\* as they were.
C9_BootInterrupts ==
    [][(\E restart \in BOOLEAN : on_worker_ready(restart)) =>
          /\ \A t \in TaskIds :
                IF NonTerminal(t) THEN tasks'[t].status = "interrupted"
                ELSE tasks'[t] = tasks[t]
          /\ \A r \in RepoIds :
                (\E t \in TaskIds : NonTerminal(t) /\ tasks[t].repo = r)
                   => IF repos[r].status \in {"ready", "error"}
                         THEN repos'[r] = repos[r]
                         ELSE repos'[r].status = "interrupted"]_vars

\* the worker-boot hook moved task t to interrupted
InterruptedAtBoot(t) ==
    Visible(t) /\ tasks[t].status = "interrupted"
    /\ tasks[t].error_msg = "worker_restart"

\* C10 (resubmission after an interruption): when a repository's task was
\* interrupted at worker boot and the repository has no non-terminal task, a
\* submission of its URL is accepted and creates a full_process task.
C10_ResubmitAfterInterrupt ==
    \A t \in TaskIds :
        (InterruptedAtBoot(t) /\ repos[tasks[t].repo] # NoRepo
         /\ \A x \in TaskIds : ~(NonTerminal(x) /\ tasks[x].repo = tasks[t].repo))
           => /\ ~SubmitConflict(repos[tasks[t].repo].url)
              /\ SubmitTaskType(repos[tasks[t].repo].url) = "full_process"

\* a step writes a FileState row for path p: into the session, or into the
\* committed table
WritesFileState(p) ==
    \/ sWritten'[p] # sWritten[p] /\ sWritten'[p] # NoFileState
    \/ file_state'[p] # file_state[p] /\ file_state'[p] # NoFileState

\* C5 (FileState only after the vector store): a step writes a FileState row
\* only in the embedding stage of a run whose whole chunk list is in the
\* collection; the parse stage writes none, and a run whose embedding has
\* not stored every batch (it may yet fail) has written none.
C5_FileStateAfterStore ==
    [][/\ \A p \in Paths :
             WritesFileState(p) =>
                /\ fpc \in {"embedding", "index"}
                /\ chunks # <<>>
                /\ \A i \in 1..Len(chunks) : chunks[i] \in collection
       /\ (fpc \in {"parse", "embedding"} /\ stored < Len(chunks)) =>
             \A p \in Paths : sWritten'[p] = NoFileState
                              /\ file_state'[p] = file_state[p]]_vars

\* a run of two batches has stored both and written its FileState rows
C5_Witness ==
    /\ fpc = "index"
    /\ Len(chunks) > BatchSize
    /\ \A i \in 1..Len(chunks) : sWritten[chunks[i].file_path] # NoFileState

\* C6 (FileState chunks are stored): whenever no session holds an
\* uncommitted FileState deletion, every chunk id a committed FileState row
\* lists is the id of a chunk in the collection.
C6_FileStateChunksStored ==
    sDeleted = {} =>
        \A p \in Paths :
            \A id \in file_state[p].chunk_ids : \E c \in collection : c.id = id

\* C7 (atomic visibility): once an embedding stage has been committed, and
\* outside the embedding stage of a later run, every path with a chunk in
\* the collection has a FileState row.
C7_AtomicVisibility ==
    (embed_committed /\ fpc \notin {"embedding", "index"}) =>
        \A c \in collection : file_state[c.file_path] # NoFileState

\* path p has a FileState row that carries the digest of its present content
Unchanged(p) ==
    disk[p] # 0 /\ View(p) # NoFileState /\ View(p).file_hash = sha256(disk[p])

\* a step of a run makes no chunk for p and adds nothing of p to the
\* collection
NoNewWork(p) ==
    /\ \A i \in 1..Len(chunks') :
          chunks'[i].file_path = p => (i <= Len(chunks) /\ chunks[i] = chunks'[i])
    /\ \A c \in collection' \ collection : c.file_path # p

Rescheduled(t) ==
    /\ pc = "retry"
    /\ wJob.task = t
    /\ [wJob EXCEPT !.retries = @ + 1, !.countdown = countdown(wJob.retries)]
           \in queue'

\* the row the claim says a retry leaves: pending with error message and
\* failed stage cleared, or the row as it was when cancelled or interrupted
ResetForRetry(row) ==
    IF row.status \in {"cancelled", "interrupted"} THEN row
    ELSE [row EXCEPT !.status = "pending", !.error_msg = "none",
                     !.failed_at_stage = "none"]

\* the retries and countdowns the claim allows: none for the first run, 30 s
\* for the first retry, 60 s for the second, no third retry
RetrySchedule(j) ==
    \/ j.retries = 0 /\ j.countdown = 0
    \/ j.retries = 1 /\ j.countdown = 30
    \/ j.retries = 2 /\ j.countdown = 60

\* C11: a job whose run raised is run again at most twice, the first retry
\* with a countdown of 30 s and the second of 60 s, and every step that
\* schedules a retry leaves the task row reset to pending with error message
\* and failed stage cleared, or unchanged when it was cancelled or interrupted
C11_RetryResets ==
    [][/\ \A j \in queue' : RetrySchedule(j)
       /\ \A t \in TaskIds :
             (Rescheduled(t) /\ Visible(t)) => tasks'[t] = ResetForRetry(tasks[t])]_vars

\* C11 as the code has it: the same schedule, and the row is reset unless
\* the reset itself failed (the failure is logged and the retry goes ahead),
\* in which case the row is left as it was
C11_RetryResetsUnlessResetFails ==
    [][/\ \A j \in queue' : RetrySchedule(j)
       /\ \A t \in TaskIds :
             (Rescheduled(t) /\ Visible(t)) =>
                 tasks'[t] = IF faults' = faults THEN ResetForRetry(tasks[t])
                             ELSE tasks[t]]_vars

\* a second retry is waiting with the task reset to pending
C11_Witness ==
    \E j \in queue : /\ j.retries = 2 /\ j.countdown = 60
                      /\ Visible(j.task)
                      /\ tasks[j.task].status = "pending"
                      /\ faults = 2

\* C12: a run that ended with the cancellation exception (cancel flag seen,
\* or status found cancelled or interrupted) is acknowledged at once: its job
\* leaves the queue, no job of the task is published again, the task row is
\* not touched, and the retry branch of the job runner is never reached
C12_CancelNotRetried ==
    /\ [][(Handler /\ wExc = "cancelled") =>
             /\ queue' = queue \ {wJob}
             /\ tasks' = tasks
             /\ pc' = "idle"]_vars
    /\ [](pc = "retry" => wExc = "error")

\* a first run, with both retries left, has ended by cancellation
C12_Witness ==
    /\ pc = "except"
    /\ wExc = "cancelled"
    /\ wJob.retries = 0
    /\ wJob \in queue

\* the jobs the claim says are dropped: task row missing, task interrupted,
\* or repository row missing
GhostJob(j) ==
    \/ tasks[j.task] = NoTask
    \/ tasks[j.task].status = "interrupted"
    \/ repos[j.repo] = NoRepo

\* C13: when the worker dequeues a job whose task row is missing, whose task
\* is interrupted or whose repository row is missing, it stays idle (no
\* stage is run), no event is published and no task or repository row changes
C13_GhostJobDropped ==
    [][\A j \in queue :
          (GhostJob(j) /\ Dequeue(j)) =>
              /\ pc' = "idle"
              /\ wJob' = NoJob
              /\ events' = events
              /\ tasks' = tasks
              /\ repos' = repos]_vars

\* the idle worker is about to take the job of an interrupted task
C13_Witness ==
    \E j \in queue : /\ pc = "idle"
                      /\ tasks[j.task].status = "interrupted"
                      /\ repos[j.repo] # NoRepo

\* an earlier run processed the repository as it is now: every file of the
\* working copy that the parser yields chunks for has a committed FileState
\* row with the digest of its content, and no other path has a row
AllUnchanged ==
    /\ \E p \in Paths : disk[p] # 0 /\ p \in parsable
    /\ \A p \in Paths :
          IF disk[p] # 0 /\ p \in parsable
             THEN file_state[p].file_hash = sha256(disk[p])
             ELSE file_state[p] = NoFileState

EmptyDiffRun ==
    /\ fType = "incremental_sync"
    /\ wiki # 0
    /\ fpc \notin {"idle", "stage1"}
    /\ stdout = {}
    /\ fetched = disk
    /\ \E p \in Paths : disk[p] # 0
    /\ fsFaults = 0

\* C15: no step of an incremental_sync run with an empty diff writes to the
\* collection, to FileState (flushed or committed) or to the Wiki rows, and
\* the event published when the run completes reports no_changes
C15_EmptyDiffNoWrites ==
    [][EmptyDiffRun =>
          /\ collection' = collection
          /\ file_state' = file_state
          /\ sWritten' = sWritten
          /\ wiki' = wiki
          /\ (fpc = "generating" /\ fpc' = "idle") =>
                 fsEvent'.status = "no_changes"]_vars

\* the rename lines of the run's diff
RenameLines == {l \in stdout : l[1][1] = "R"}

\* a step of the loop of apply_incremental_sync that handles the entry of
\* path p
Handles(p) ==
    /\ fpc = "sync_apply"
    /\ changes # {}
    /\ NextChange[2] = p
    /\ changes' = changes \ {NextChange}
    /\ fsFaults' = fsFaults

\* the step that completes a pipeline run
Completes == fpc = "generating" /\ fpc' = "idle" /\ fsFaults' = fsFaults

ClassifiedPaths ==
    {l[Len(l)] : l \in {k \in stdout : k[1][1] \in {"A", "M", "D"}}}
    \cup {l[2] : l \in RenameLines} \cup {l[3] : l \in RenameLines}

C18_SyncFailureFailsTask ==
    [][(SyncDone(FALSE) /\ Visible(wJob.task)) =>
          /\ tasks'[wJob.task].status = "failed"
          /\ tasks'[wJob.task].failed_at_stage = "cloning"
          /\ pc' \in {"idle", "retry"}]_vars

\* the place of a status in the order of the pipeline
StageRank(status) ==
    CASE status = "pending" -> 0
      [] status = "cloning" -> 1
      [] status = "parsing" -> 2
      [] status = "embedding" -> 3
      [] status = "generating" -> 4
      [] OTHER -> 5

\* C19: while a task is not terminal its status only moves forward in the
\* order pending, cloning, parsing, embedding, generating, completed, one
\* stage at a time, or to a terminal status; a wiki_regenerate task moves
\* from pending to generating and is never cloning, parsing or embedding
C19_StatusOrder ==
    [][\A t \in TaskIds :
          (Visible(t) /\ tasks'[t] # NoTask /\ tasks[t].status \notin TERMINAL) =>
             /\ tasks'[t].status \in TERMINAL
                   \/ tasks'[t].status = tasks[t].status
                   \/ IF tasks[t].type = "wiki_regenerate"
                         THEN tasks[t].status \in {"pending", "generating"}
                              /\ tasks'[t].status = "generating"
                         ELSE StageRank(tasks'[t].status) =
                                 StageRank(tasks[t].status) + 1
             /\ tasks[t].type = "wiki_regenerate" =>
                   tasks'[t].status \notin {"cloning", "parsing", "embedding"}]_vars

\* the tag of the stage the worker is executing: at the two places where a
\* stage fails the task itself (clone, parse) and in init_redis it follows
\* from the position, in the except clause it is the stage that raised
StageTags == {"cloning", "parsing", "embedding", "generating"}

ExecutingStage ==
    CASE pc \in {"init_redis", "open", "enter", "cloning", "enter_parsing"} -> "cloning"
      [] pc \in {"parsing", "enter_embedding"} -> "parsing"
      [] pc = "embedding" -> "embedding"
      [] pc \in {"wiki_outline", "wiki_pages", "wiki_write"} -> "generating"
      [] OTHER -> "none"

\* the stage whose entry or body raised, as far as the position before the
\* raise tells: the stage being executed, or the one being entered
RaisedIn(stage) ==
    \/ stage = ExecutingStage
    \/ pc = "enter" /\ stage = "generating"
    \/ pc = "enter_parsing" /\ stage = "parsing"
    \/ pc = "enter_embedding" /\ stage = "embedding"
    \/ pc = "embedding" /\ stage = "generating"

\* C20: a step that makes a task failed is a step of the run of that task,
\* sets failed_at_stage to the tag of the stage that was executing (for the
\* except clause: the stage recorded when the exception was raised, which
\* is the stage that was executing or being entered then), and ends the
\* attempt: no later stage is run
C20_FailedStageTag ==
    [][/\ \A t \in TaskIds :
             (Visible(t) /\ tasks[t].status # "failed" /\ tasks'[t] # NoTask
                 /\ tasks'[t].status = "failed") =>
                /\ t = wJob.task
                /\ tasks'[t].failed_at_stage \in StageTags
                /\ tasks'[t].failed_at_stage =
                       IF pc = "except" THEN wStage ELSE ExecutingStage
                /\ pc' \in {"idle", "retry"}
       /\ (pc # "except" /\ pc' = "except" /\ wExc' = "error") => RaisedIn(wStage')
       /\ (pc = "except" /\ pc' = "retry") => wStage' = wStage]_vars

\* the run failed in its embedding stage and the task row says so
C20_Witness ==
    /\ pc = "retry"
    /\ Visible(wJob.task)
    /\ tasks[wJob.task].status = "failed"
    /\ tasks[wJob.task].failed_at_stage = "embedding"

\* the pages of the wiki whose relevant-files list shares a path with the
\* change set (the quick-start pages list no files)
Intersecting(changed_files) ==
    {p \in TechRows :
        \E f \in wiki_pages[p].relevant_files : \E c \in changed_files :
            norm(f) = norm(c)}

\* the step is the wiki stage of an incremental_sync task with a wiki
IncrementalStage ==
    /\ generation' = generation + 1
    /\ wiki_task'.type = "incremental_sync"
    /\ wiki_row # 0

\* C21: in an incremental wiki update, if the pages intersecting the changed
\* paths are more than 0.65 of the pages of the wiki, no page content, summary
\* or section title is modified and the result is full_regen_suggested with
\* a reason.
C21_ThresholdNoWrites ==
    [][(/\ IncrementalStage
        /\ Cardinality(Intersecting(wiki_task'.changed_paths)) * 100
              > 65 * all_pages)
         => /\ wiki_pages' = wiki_pages
            /\ quick_start' = quick_start
            /\ section_title' = section_title
            /\ wiki_result'.status = "full_regen_suggested"
            /\ wiki_result'.suggestion_reason
            /\ terminal_event'.wiki_regen_suggestion]_vars

\* an incremental update has found four of six pages dirty and suggested a
\* full regeneration
C21_Witness ==
    /\ wiki_result.status = "full_regen_suggested"
    /\ wiki_result.dirty * 100 > 65 * wiki_result.total
    /\ terminal_event.status = "completed"
    /\ quick_start # 0

\* a technical page that shares no path with the change set of the task
Clean(p, changed) ==
    /\ p \in TechRows
    /\ {norm(f) : f \in wiki_pages[p].relevant_files}
         \cap {norm(c) : c \in changed} = {}

\* C22: when an incremental_sync task completes, every technical page whose
\* relevant-files list (after lower-casing and slash normalisation) has no
\* path in common with the paths of the sync has the same content and summary
\* as before the task.
C22_CleanPagesKept ==
    [][(/\ generation' = generation + 1
        /\ wiki_task'.type = "incremental_sync"
        /\ terminal_event'.status = "completed")
         => \A p \in TechPages :
               Clean(p, wiki_task'.changed_paths)
                 => /\ wiki_pages'[p].content_md = wiki_pages[p].content_md
                    /\ wiki_pages'[p].summary = wiki_pages[p].summary]_vars

\* the worker is inside a run of a job of repository r
Running(r) == pc # "idle" /\ wJob.repo = r

\* a Repository row that was created and has been deleted
RepoGone(r) == r < nextRepo /\ repos[r] = NoRepo

\* C23: when a repository is deleted while a task of it is running, the
\* delete request sets the cancel flag of every task it finds in progress,
\* after the request returns the clone directory and the collection of the
\* repository are absent, and the worker still running the task re-creates
\* neither.
C23_DeleteRemovesStores ==
    [][\A r \in RepoIds :
         /\ (r \notin deleting /\ r \in deleting')
              => ActiveTasks(r) \subseteq cancelFlag'
         /\ (Running(r) /\ ~RepoGone(r) /\ RepoGone(r)')
              => r \notin clone_dir' /\ r \notin chroma'
         /\ (Running(r) /\ RepoGone(r))
              => /\ r \in clone_dir' => r \in clone_dir
                 /\ r \in chroma' => r \in chroma]_vars

\* a task of some repository is outside _TERMINAL_STATUSES
ActiveCount == Cardinality({t \in TaskIds : NonTerminal(t)})

\* C24: the orphan cleanup deletes nothing while a non-terminal task exists,
\* and it deletes no clone directory and no collection of a repository that
\* exists, also when a task was submitted and has cloned since the cleanup's
\* check.
C24_CleanupSparesLiveRepos ==
    [][(cleanup = "scan" /\ cleanup' = "idle")
         => /\ ActiveCount > 0 => clone_dir' = clone_dir /\ chroma' = chroma
            /\ \A r \in RepoIds :
                 repos[r] # NoRepo
                   => /\ r \in clone_dir => r \in clone_dir'
                      /\ r \in chroma => r \in chroma']_vars

\* a full generation or an incremental update in which some page generation
\* raised
StageWithFailedPages ==
    /\ generation' = generation + 1
    /\ wiki_task'.type \in {"full_process", "incremental_sync"}
    /\ page_failures' # {}

RetryContexts(in) ==
    <<Code(in.len \div 2)>>
      \o (IF in.half = "ok" THEN <<>>
          ELSE <<Code(in.len \div 4)>>
                 \o (IF in.quarter = "ok" THEN <<>> ELSE <<FileList>>))

\* C27: a page whose first content request fails with a token overflow is
\* retried with 50 % of the code context, then 25 %, then the file list
\* only, in this order and up to the first success; a page all of whose
\* attempts fail is counted in skipped_pages and the generation goes on.
C27_DegradationOrder ==
    [][(pages_done' = pages_done + 1
        /\ page_input'.merged_empty /\ page_input'.single = "overflow")
         => /\ llm_contexts' = <<Code(page_input'.len)>> \o RetryContexts(page_input')
            /\ page_result' = "raised"
                 => skipped_count' = skipped_count + 1]_vars

\* t is the full_process task of a first submission, and the only task yet
FirstSubmission(t) ==
    /\ nextTask = t + 1
    /\ t = 1
    /\ Visible(t)
    /\ tasks[t].type = "full_process"
    /\ repos[tasks[t].repo] # NoRepo

NonTerminalOf(u) ==
    {t \in TaskIds : NonTerminal(t) /\ tasks[t].repo \in ExistingRepo(u)}

\* the rows of the handler's select: the tasks of that repository that are
\* not completed, failed or cancelled
ActiveOf(u) == UNION {ActiveTasks(r) : r \in ExistingRepo(u)}

\* active_task.id of the 409 answer: .first() of the select, the rows
\* coming in insertion order
existing_task_id(u) ==
    CHOOSE t \in ActiveOf(u) : \A other \in ActiveOf(u) : t <= other

HasToken(text) ==
    \E i \in DOMAIN text :
       text[i] \in {"https://oauth2:x@", "ghp_x", "glpat-x", "Bearer x"}

\* C30: no error message stored on a task row and no failed event published
\* holds a substring that matches a token pattern (oauth2 credentials in an
\* HTTPS URL, a ghp_ token, a glpat- token, a Bearer token), whatever the
\* text of the exception was.
C30_NoTokenInStoredText ==
    ~HasToken(error_text) /\ ~HasToken(event_text)

\* lines of the original content a chunk of the result holds
LinesOf(c) == c.from .. (c.to - 1)

\* C31 (sliding window): split_large_chunk returns a chunk within the token
\* budget unchanged, as a single chunk with the same id; for a chunk over
\* the budget the sub-chunks together hold every line of the original, each
\* two consecutive sub-chunks share exactly OVERLAP_LINES lines, and a chunk
\* of window_size + 1 lines yields exactly two sub-chunks.
C31_SplitWindows ==
    chunk_in # NoChunk =>
       IF estimated_tokens(chunk_in) <= MAX_CHUNK_TOKENS
          THEN chunk_out = <<chunk_in>>
          ELSE /\ \A l \in LinesOf(chunk_in) :
                     \E i \in 1..Len(chunk_out) : l \in LinesOf(chunk_out[i])
               /\ \A i \in 1..(Len(chunk_out) - 1) :
                     Cardinality(LinesOf(chunk_out[i]) \cap LinesOf(chunk_out[i + 1]))
                        = OVERLAP_LINES
               /\ total_lines(chunk_in) = window_size + 1 => Len(chunk_out) = 2

\* positions of the run whose next step is a stage update (_update_task)
StageEntry == {"enter", "enter_parsing", "enter_embedding"}

\* the worker takes its stage-update step
StageUpdateStep ==
    /\ wJob # NoJob
    /\ pc \in StageEntry
    /\ pc' \notin {pc, "idle"}

\* C32 (stage update refused after cancel): a stage update of the worker is
\* applied only if the committed status of its task is neither cancelled nor
\* interrupted at that moment; otherwise the update is refused, the run
\* unwinds with a cancellation and the committed status stays as it is.
C32_StageUpdateRefused ==
    [][(/\ StageUpdateStep
        /\ Visible(wJob.task)
        /\ tasks[wJob.task].status \in {"cancelled", "interrupted"})
          => /\ pc' = "except"
             /\ wExc' = "cancelled"
             /\ tasks'[wJob.task] = tasks[wJob.task]]_vars

\* the step commits a terminal status for task t
ReachesTerminal(t) ==
    /\ tasks'[t] # NoTask
    /\ tasks'[t].status \in TERMINAL
    /\ tasks'[t].status # tasks[t].status

\* C33 (terminal event): whenever a task reaches a terminal status
\* (completed, failed, cancelled or interrupted), an event carrying that
\* status is published on the task's progress topic.
C33_TerminalEventPublished ==
    [][\A t \in TaskIds :
         ReachesTerminal(t) => events'[t].status = tasks'[t].status]_vars

\* C34 (one Wiki per repository): in every committed state the repository
\* has at most one Wiki row, also when the generate stages of two of its
\* tasks run at the same time on two worker processes.
C34_AtMostOneWiki == Cardinality(wikis) <= 1

\* a chunk of the collection that some committed FileState row lists
Listed(c) == \E p \in Paths : c.id \in file_state[p].chunk_ids

\* the run completes
RunCompletes == \E outcome \in WikiOutcomes : wiki_stage(outcome)

\* C35 (orphan vectors are cleaned): when a run has failed in its embedding
\* stage after it stored batches in the collection, then at the completion
\* of the next run that completes every chunk of the collection is listed
\* in some FileState row.
C35_OrphansCleanedByNextRun ==
    [][(failed_stored # {} /\ RunCompletes)
          => \A c \in collection' : Listed(c)']_vars

\* the statuses reprocess and sync give a repository at submission
TransientRepoStatus == {"cloning", "syncing"}

\* C36 (no transient repository status without a task): whenever a
\* repository has no non-terminal task, its status is neither cloning nor
\* syncing.
C36_NoTransientStatusAtRest ==
    \A r \in RepoIds :
       (repos[r] # NoRepo
        /\ \A t \in TaskIds : tasks[t].repo = r => ~NonTerminal(t))
          => repos[r].status \notin TransientRepoStatus

\* the worker takes job j and its pre-flight check finds no task row
DropsAsGhost(j) == Dequeue(j) /\ ~Visible(j.task)

\* C37 (row committed before the job is enqueued): whenever the worker
\* drops a job because its pre-flight check finds no task row, no API
\* session holds that task's row flushed and still to be committed.
C37_RowCommittedBeforeEnqueue ==
    [][\A j \in queue :
         DropsAsGhost(j) => \A f \in flushed : f.task # j.task]_vars

\* the step moves task t to interrupted
Interrupts(t) ==
    /\ Visible(t)
    /\ tasks[t].status # "interrupted"
    /\ tasks'[t].status = "interrupted"

\* task t is being run by a worker process that is alive after the step
RunsOnLiveWorker(t) == wJob.task = t /\ wJob' = wJob

\* C38 (the boot hook interrupts only abandoned runs): a task is moved to
\* interrupted only if a worker had started it (its status is a stage
\* status) and no live worker is running it; a task still queued and never
\* started, and a task running on another live worker, are left alone.
C38_BootInterruptsOnlyAbandoned ==
    [][\A t \in TaskIds :
         Interrupts(t) => /\ tasks[t].status \in StageStatus
                          /\ ~RunsOnLiveWorker(t)]_vars

\* a sub-task of the generation has found the cancel flag set
CancelDetected == \E p \in GenPages : results[p] = "cancelled"

\* the generation returns as if it had not been cancelled
ReturnsNormally == gen_pc # "returned" /\ gen_pc' = "returned"

C40_EveryTaskEnds == \A t \in TaskIds : []<>(~NonTerminal(t))

====
